---- MODULE Spec2Model ----
(***************************************************************************)
(* The task graph scheduler of garden-service (src/task-graph.ts).         *)
(*                                                                         *)
(* The graph is a single-threaded event loop: every handler (process(),    *)
(* addTaskInternal(), the then/catch/finally pipeline of a task body) runs *)
(* to completion, so each is one action.  Task bodies run outside the      *)
(* graph; their settling is the input of the Finish actions.              *)
(* Logging (this.log, logEntryMap) is left out.                            *)
(*                                                                         *)
(* The other parts of garden-service that are modelled (the template       *)
(* resolver of config/config-context.ts and template-string.ts, the module *)
(* registry and the action handlers of garden.ts, the ConfigGraph of        *)
(* config-graph.ts, the ActionHelper of actions.ts and the module versions *)
(* of Garden.resolveVersion) have their                                    *)
(* own variables and specifications; they stay idle while the task graph   *)
(* runs, and the task graph stays in its initial state while they run.     *)
(***************************************************************************)
EXTENDS Integers, Sequences, FiniteSets, TLC

VARIABLES
  concurrencyLimit,     \* TaskGraph.concurrencyLimit, set by the constructor
  index,                \* TaskGraph.index      : keys, in Map insertion order
  roots,                \* TaskGraph.roots      : keys, in Map insertion order
  inProgress,           \* TaskGraph.inProgress : keys, in Map insertion order
  node,                 \* the TaskNode indexed under each key
  taskDependencyCache,  \* key -> set of baseKeys
  cache,                \* ResultCache.cache    : key -> TaskResult
  cacheLength,          \* ResultCache.length
  eventLog,             \* TestEventBus.eventLog
  calls,                \* one entry per process() call: its nodes, results and promise
  running,              \* keys of indexed nodes whose process() body is executing
  orphans,              \* per key, bodies still executing whose node was removed from the graph
  processCalls,         \* per key, number of invocations of task.process()
  trapped,              \* number of subscriber errors the event bus has trapped and logged
  variables,            \* ProviderConfigContext.variables : name -> value
  resolvedValues,       \* ConfigContext._resolvedValues   : name -> value
  frames,               \* the activations of ConfigContext.resolve(), outermost first
  resolveOutcome,       \* how the outermost resolve() ended
  resolveCalls,         \* number of outermost resolve() calls
  moduleConfigs,        \* Garden.moduleConfigs : the configs, in the insertion order of their names
  modulesScanned,       \* Garden.modulesScanned
  scanRejected,         \* the promise of scanModules() has rejected
  configGraph,          \* the ConfigGraph that getConfigGraph() returned last
  gardenCall,           \* the last call on the Garden: the module it names and the error it threw
  loadedPlugins,        \* Garden.loadedPlugins : the names
  actionHandlers,       \* Garden.actionHandlers : actionType -> handlers, in the insertion order of the plugin names
  moduleActionHandlers, \* Garden.moduleActionHandlers : <<actionType, moduleType>> -> handlers, in insertion order
  pluginLoads,          \* the plugin names of the loadPlugin() calls, in the order of the calls
  handlerCall,          \* the last request for handlers: its arguments and what it returned or threw
  versionCache,         \* Garden.cache : the entries under "moduleVersions", as [key, value]
  sources,              \* the state of the source tree of each module, as the VCS sees it
  versionCalls,         \* the resolveVersion() calls: arguments, position and result
  storeConfig,          \* ConfigStore.config : the object it refers to, or null
  storeHeap,            \* the config objects, in the order of their creation
  storeDisk,            \* the content of the file at configPath
  storeCalls,           \* the set() and delete() calls: arguments, position and locals
  buildLock,            \* buildLock, key "mvn": the build() calls that hold or wait for it, the holder first
  mavenBuilds,          \* the build() calls of the maven-container handler: position and outcome
  created,              \* namespace.ts created : name -> "pending" or "created"
  cluster,              \* the namespaces of the cluster that are Active
  namespaceCalls        \* the ensureNamespace() calls: argument, position and what held at the return

graphVars == <<concurrencyLimit, index, roots, inProgress, node, taskDependencyCache, cache, cacheLength,
               eventLog, calls, running, orphans, processCalls, trapped>>

contextVars == <<variables, resolvedValues, frames, resolveOutcome, resolveCalls>>

gardenVars == <<moduleConfigs, modulesScanned, scanRejected, configGraph, gardenCall>>

pluginVars == <<loadedPlugins, actionHandlers, moduleActionHandlers, pluginLoads, handlerCall>>

versionVars == <<versionCache, sources, versionCalls>>

storeVars == <<storeConfig, storeHeap, storeDisk, storeCalls>>

mavenVars == <<buildLock, mavenBuilds>>

namespaceVars == <<created, cluster, namespaceCalls>>

restVars == <<contextVars, gardenVars, pluginVars, versionVars, storeVars, mavenVars, namespaceVars>>

\* what a step of one part leaves alone
exceptContext == <<graphVars, gardenVars, pluginVars, versionVars, storeVars,
                   mavenVars, namespaceVars>>

exceptGarden == <<graphVars, contextVars, pluginVars, versionVars, storeVars,
                  mavenVars, namespaceVars>>

exceptPlugins == <<graphVars, contextVars, gardenVars, versionVars, storeVars,
                   mavenVars, namespaceVars>>

exceptVersions == <<graphVars, contextVars, gardenVars, pluginVars, storeVars,
                    mavenVars, namespaceVars>>

exceptStore == <<graphVars, contextVars, gardenVars, pluginVars, versionVars,
                 mavenVars, namespaceVars>>

exceptMaven == <<graphVars, contextVars, gardenVars, pluginVars, versionVars, storeVars,
                 namespaceVars>>

exceptNamespaces == <<graphVars, contextVars, gardenVars, pluginVars, versionVars, storeVars,
                      mavenVars>>

vars == <<graphVars, restVars>>

---------------------------------------------------------------------------
(* The values of the template resolver, and its state while it is not used. *)

CtxKeys == {"x", "y", "z"}

\* a value of the context: not there, a string with no template in it, or
\* the string "${variables.<key>}"
Undefined == [kind |-> "undefined", key |-> ""]
Literal == [kind |-> "string", key |-> ""]
Template(k) == [kind |-> "template", key |-> k]

IdleContext ==
  /\ variables = [k \in CtxKeys |-> Undefined]
  /\ resolvedValues = [k \in CtxKeys |-> Undefined]
  /\ frames = <<>>
  /\ resolveOutcome = "none"
  /\ resolveCalls = 0

---------------------------------------------------------------------------
(* The module configs, and the Garden while it is not used.                *)

ModuleNames == {"m1", "m2"}

NoEntity == [name |-> "", dependencies |-> {}]

NoGraph == [index |-> {}, edges |-> {}, serviceMap |-> {}, taskMap |-> {}, error |-> "unbuilt"]

NoCall == [op |-> "none", name |-> "", force |-> FALSE, error |-> "none", paths |-> <<>>]

IdleGarden ==
  /\ moduleConfigs = <<>>
  /\ modulesScanned = FALSE
  /\ scanRejected = FALSE
  /\ configGraph = NoGraph
  /\ gardenCall = NoCall

---------------------------------------------------------------------------
(* The plugins, and the action handlers before a plugin is loaded.         *)

Plugins == {"P1", "P2", "P3"}

ActionTypes == {"prepareEnvironment", "getEnvironmentStatus", "cleanupEnvironment"}

ModuleActionTypes == {<<"build", "container">>, <<"deployService", "container">>}

NoHandler == [pluginName |-> "", actionType |-> "", moduleType |-> ""]

NoHandlerCall == [op |-> "none", actionType |-> "", moduleType |-> "", pluginName |-> "",
                  defaultHandler |-> FALSE, returns |-> "nothing", handler |-> NoHandler,
                  statuses |-> <<>>, error |-> "none"]

IdlePlugins ==
  /\ loadedPlugins = {}
  /\ actionHandlers = [t \in ActionTypes |-> <<>>]
  /\ moduleActionHandlers = [t \in ModuleActionTypes |-> <<>>]
  /\ pluginLoads = <<>>
  /\ handlerCall = NoHandlerCall

---------------------------------------------------------------------------
(* The module versions before a version is resolved.                       *)

VersionModules == {"a", "b", "m"}

IdleVersions ==
  /\ versionCache = {}
  /\ sources = [x \in VersionModules |-> 0]
  /\ versionCalls = <<>>

---------------------------------------------------------------------------
(* The config store before it is used.                                     *)

StoreKeys == {"k1", "k2"}

NoObject == 0

IdleStore ==
  /\ storeConfig = NoObject
  /\ storeHeap = <<>>
  /\ storeDisk = {}
  /\ storeCalls = <<>>

---------------------------------------------------------------------------
(* The maven-container builds and the namespaces before they are used.     *)

Namespaces == {"n1", "n2"}

IdleMaven ==
  /\ buildLock = <<>>
  /\ mavenBuilds = <<>>

IdleNamespaces ==
  /\ created = [n \in Namespaces |-> "none"]
  /\ cluster = {}
  /\ namespaceCalls = <<>>

IdleRest == IdleContext /\ IdleGarden /\ IdlePlugins /\ IdleVersions /\ IdleMaven /\ IdleNamespaces /\ IdleStore

---------------------------------------------------------------------------
(* The tasks of the model.                                                 *)

Keys == {"a1", "a2", "b1", "c1"}

\* a1 and a2 are the same task with different params
BaseKey(k) == IF k \in {"a1", "a2"} THEN "a" ELSE IF k = "b1" THEN "b" ELSE "c"

Type(k) == IF k = "c1" THEN "test" ELSE "build"

\* BaseTask.concurrencyLimit of each type; 0 stands for undefined
BuildLimit == 1

TaskLimit(k) == IF Type(k) = "build" THEN BuildLimit ELSE 0

\* the tasks each task declares as its dependencies
DepTasks(k) == IF k = "b1" THEN {"a1"} ELSE IF k = "c1" THEN {"b1"} ELSE {}

\* the largest concurrencyLimit handed to the constructor
MaxConcurrency == 2

MAX_CACHE_SIZE == 1000

\* Math.floor(MAX_CACHE_SIZE * CACHE_CLEANUP_RATIO), CACHE_CLEANUP_RATIO = 0.8,
\* for a cache of the given size
CleanupCount(size) == (size * 8) \div 10

\* bounds of the exploration
MaxProcess == 2      \* process() calls
MaxAddTask == 1      \* addTaskInternal() calls
MaxBatch == 2        \* tasks handed to one process() call
MaxTasks == 3        \* tasks handed to the graph altogether
MaxRetry == 1        \* tasks handed in again after they failed, on top of MaxTasks
MaxThrows == 1       \* events on which a subscriber throws

NoKey == "none"
NoParent == "none"
NoResult == [key |-> NoKey, error |-> FALSE, completedAt |-> 0, dependencyResults |-> {}]
NoNode == [force |-> FALSE, parent |-> NoParent, dependencies |-> {}, dependencyResults |-> {}]

---------------------------------------------------------------------------
(* TaskNodeMap: a Map from key to node, traversed in insertion order.      *)

Range(s) == {s[i] : i \in DOMAIN s}

Contains(s, k) == k \in Range(s)

MapAdd(s, k) == IF Contains(s, k) THEN s ELSE Append(s, k)

MapRemove(s, k) == SelectSeq(s, LAMBDA x : x # k)

RECURSIVE SetToSeq(_)
SetToSeq(S) == IF S = {} THEN <<>>
               ELSE LET x == CHOOSE y \in S : TRUE
                    IN <<x>> \o SetToSeq(S \ {x})

---------------------------------------------------------------------------
(* The state of the graph as one record, so that the methods compose.      *)

Graph == [concurrencyLimit |-> concurrencyLimit, index |-> index, roots |-> roots, inProgress |-> inProgress, node |-> node,
          taskDependencyCache |-> taskDependencyCache, cache |-> cache,
          cacheLength |-> cacheLength, eventLog |-> eventLog, calls |-> calls,
          running |-> running, orphans |-> orphans, processCalls |-> processCalls,
          trapped |-> trapped]

Becomes(G) ==
  /\ concurrencyLimit' = G.concurrencyLimit
  /\ index' = G.index
  /\ roots' = G.roots
  /\ inProgress' = G.inProgress
  /\ node' = G.node
  /\ taskDependencyCache' = G.taskDependencyCache
  /\ cache' = G.cache
  /\ cacheLength' = G.cacheLength
  /\ eventLog' = G.eventLog
  /\ calls' = G.calls
  /\ running' = G.running
  /\ orphans' = G.orphans
  /\ processCalls' = G.processCalls
  /\ trapped' = G.trapped
  /\ UNCHANGED restVars

Event(name, key, result) == [name |-> name, key |-> key, result |-> result]

---------------------------------------------------------------------------
(* ResultCache                                                             *)

\* a cache that never has the result
CacheGetMiss(c, key) == NoResult

CacheGet(c, key) ==
  IF key \in DOMAIN c /\ c[key] # NoResult /\ c[key].key = key /\ ~c[key].error
  THEN c[key] ELSE NoResult

CachePick(c, keys) == {k \in keys : CacheGet(c, k) # NoResult}

\* sortBy(values, "completedAt").slice(cleanupCount) are deleted
CacheCleanupAt(c, size) ==
  LET present == {k \in DOMAIN c : c[k] # NoResult}
      rank(k) == Cardinality({j \in present : c[j].completedAt < c[k].completedAt})
  IN [k \in DOMAIN c |-> IF k \in present /\ rank(k) >= CleanupCount(size) THEN NoResult ELSE c[k]]

CacheCleanup(c) == CacheCleanupAt(c, MAX_CACHE_SIZE)

\* put(result) of a cache whose MAX_CACHE_SIZE is size
CachePutAt(G, result, size) ==
  LET c1 == [G.cache EXCEPT ![result.key] = result]
      n == G.cacheLength + 1
  IN [G EXCEPT !.cache = IF n >= size THEN CacheCleanupAt(c1, size) ELSE c1,
               !.cacheLength = n]

CachePut(G, result) == CachePutAt(G, result, MAX_CACHE_SIZE)

---------------------------------------------------------------------------
(* Events and the listeners that process() registers.                      *)

\* a listener that resolves with the first result it receives
OnTaskCompleteFirst(c, result) ==
  LET r1 == IF result.key \in c.nodes THEN [c.results EXCEPT ![result.key] = result]
            ELSE c.results
  IN [c EXCEPT !.results = r1,
               !.status = IF @ = "pending" /\ r1 # c.results THEN "resolved" ELSE @]

OnTaskComplete(c, result) ==
  LET r1 == IF result.key \in c.nodes THEN [c.results EXCEPT ![result.key] = result]
            ELSE c.results
      n == Cardinality({k \in Keys : r1[k] # NoResult})
  IN [c EXCEPT !.results = r1,
               !.status = IF @ = "pending" /\ n = Cardinality(c.nodes) THEN "resolved" ELSE @]

\* a listener that files the failed result with the results and resolves
OnTaskErrorResolve(c, result) ==
  LET r1 == IF result.key \in c.nodes THEN [c.results EXCEPT ![result.key] = result]
            ELSE c.results
      n == Cardinality({k \in Keys : r1[k] # NoResult})
  IN [c EXCEPT !.results = r1,
               !.status = IF @ = "pending" /\ n = Cardinality(c.nodes) THEN "resolved" ELSE @]

OnTaskError(c, result) ==
  IF result.key \in c.nodes /\ c.status = "pending"
  THEN [c EXCEPT !.status = "rejected", !.error = result]
  ELSE c

Emit(G, ev) ==
  [G EXCEPT !.eventLog = Append(@, ev),
            !.calls = [i \in DOMAIN @ |->
                         IF ev.name = "taskComplete" THEN OnTaskComplete(@[i], ev.result)
                         ELSE IF ev.name = "taskError" THEN OnTaskError(@[i], ev.result)
                         ELSE @[i]]]

\* garden.events.emit(name, payload) with a subscriber that throws.  The event
\* bus (src/events) traps and logs the error of a subscriber: the other
\* listeners are called and emit returns to its caller.  thrown tells whether
\* the error reaches the caller.
EmitGuarded(G, ev) ==
  [G |-> [Emit(G, ev) EXCEPT !.trapped = @ + 1], thrown |-> FALSE]

---------------------------------------------------------------------------
(* TaskGraph: the graph structure.                                         *)

\* TaskNode.getDependencies() reads remainingDependencies, a field no code
\* declares or assigns; it is taken to be the dependencies map
SetDeps(G, k, deps) == [G EXCEPT !.node[k].dependencies = deps]

\* rebuild(): every indexed node depends on the indexed nodes whose baseKey
\* is in its taskDependencyCache entry; roots are the nodes without dependencies.
Rebuild(G) ==
  LET taskNodes == Range(G.index)
      deps(k) == {n \in taskNodes : BaseKey(n) \in G.taskDependencyCache[k]}
      nd == [k \in Keys |-> IF k \in taskNodes
                              THEN [G.node[k] EXCEPT !.dependencies = deps(k)]
                              ELSE G.node[k]]
  IN [G EXCEPT !.node = nd,
               !.roots = SelectSeq(G.index, LAMBDA k : nd[k].dependencies = {})]

\* getPredecessor(node) is called by addNode but not defined in the class; by
\* the comment in addNode it is the node already in the graph with the same
\* baseKey and a different key, which is what getNode computes as existing
GetPredecessor(G, k) ==
  LET same == SelectSeq(G.index, LAMBDA n : BaseKey(n) = BaseKey(k) /\ n # k)
  IN IF same = <<>> THEN NoKey ELSE same[Len(same)]

\* inherit(predecessor, node) is called by addNode but not defined; by the comment
\* there, [dependencies] > predecessor > [dependants] becomes
\* [dependencies] > predecessor > node > [dependants]
Inherit(G, p, k) ==
  [G EXCEPT !.node = [n \in Keys |->
     IF n = k THEN [@[n] EXCEPT !.dependencies = {p}]
     ELSE IF Contains(G.index, n) /\ p \in @[n].dependencies
          THEN [@[n] EXCEPT !.dependencies = (@ \ {p}) \cup {k}]
          ELSE @[n]]]

\* node.removeDependency(d) and dependency.addDependant(node) are called by
\* addNode but not defined in TaskNode
RemoveDependency(G, k, d) == SetDeps(G, k, G.node[k].dependencies \ {d})

\* dependency.addDependant(node): node waits for dependency
AddDependant(G, dependency, k) == SetDeps(G, k, G.node[k].dependencies \cup {dependency})

\* TaskNodeMap.addNode on this.index, storing the node object
IndexAdd(G, k, n) ==
  IF Contains(G.index, k) THEN G
  ELSE [G EXCEPT !.index = Append(@, k), !.node[k] = n]

\* remove(node); a body that is still executing loses its node
Remove(G, k) ==
  [G EXCEPT !.index = MapRemove(@, k),
            !.inProgress = MapRemove(@, k),
            !.node[k] = IF Contains(G.index, k) THEN NoNode ELSE @,
            !.running = @ \ {k},
            !.orphans[k] = IF k \in G.running THEN @ + 1 ELSE @]

RECURSIVE DependantsFrom(_, _)
DependantsFrom(G, found) ==
  LET more == {n \in Range(G.index) :
                 \E d \in G.node[n].dependencies : \E f \in found : BaseKey(d) = BaseKey(f)}
  IN IF more \subseteq found THEN found ELSE DependantsFrom(G, found \cup more)

\* getDependants(node): the indexed nodes that depend, directly or through
\* other dependants, on a node with node's baseKey
GetDependants(G, k) ==
  LET direct == {n \in Range(G.index) :
                   \E d \in G.node[n].dependencies : BaseKey(d) = BaseKey(k)}
  IN DependantsFrom(G, direct)

RECURSIVE RemoveAll(_, _)
RemoveAll(G, ks) ==
  IF ks = <<>> THEN G ELSE RemoveAll(Remove(G, Head(ks)), Tail(ks))

CancelDependants(G, k) == Rebuild(RemoveAll(G, SetToSeq(GetDependants(G, k))))

---------------------------------------------------------------------------
(* TaskGraph: the processing loop.                                         *)

\* processTask(node) up to the call of node.task.process(): the body starts
ProcessTask(G, k) ==
  [G EXCEPT !.node[k].dependencyResults = CachePick(G.cache, G.node[k].dependencies),
            !.running = @ \cup {k},
            !.processCalls[k] = @ + 1]

RECURSIVE ProcessBatch(_, _)
ProcessBatch(G, batch) ==
  IF batch = <<>> THEN G ELSE ProcessBatch(ProcessTask(G, Head(batch)), Tail(batch))

\* a walk that does not look at the global limit
RECURSIVE WalkRootsUnlimited(_, _, _, _)
WalkRootsUnlimited(G, rs, ip, batch) ==
  IF rs = <<>> THEN [inProgress |-> ip, batch |-> batch]
  ELSE LET k == Head(rs)
           inProgressByType == {n \in Range(ip) : Type(n) = Type(k)}
       IN IF Contains(ip, k)
          THEN WalkRootsUnlimited(G, Tail(rs), ip, batch)
          ELSE IF /\ TaskLimit(k) # 0
                  /\ ~(G.node[k].parent # NoParent /\ G.node[k].parent = Type(k))
                  /\ Cardinality(inProgressByType) >= TaskLimit(k)
          THEN WalkRootsUnlimited(G, Tail(rs), ip, batch)
          ELSE WalkRootsUnlimited(G, Tail(rs), Append(ip, k), Append(batch, k))

\* the walk over this.roots; at the global limit loop() returns, and the
\* batch collected so far is not processed
RECURSIVE WalkRoots(_, _, _, _)
WalkRoots(G, rs, ip, batch) ==
  IF rs = <<>> THEN [inProgress |-> ip, batch |-> batch]
  ELSE LET k == Head(rs)
           inProgressByType == {n \in Range(ip) : Type(n) = Type(k)}
       IN IF Len(ip) >= G.concurrencyLimit
          THEN [inProgress |-> ip, batch |-> <<>>]
          ELSE IF Contains(ip, k)
          THEN WalkRoots(G, Tail(rs), ip, batch)
          ELSE IF /\ TaskLimit(k) # 0
                  /\ ~(G.node[k].parent # NoParent /\ G.node[k].parent = Type(k))
                  /\ Cardinality(inProgressByType) >= TaskLimit(k)
          THEN WalkRoots(G, Tail(rs), ip, batch)
          ELSE WalkRoots(G, Tail(rs), Append(ip, k), Append(batch, k))

\* a loop that reports completion as soon as nothing is in progress
LoopIdleInProgress(G) ==
  IF Len(G.inProgress) = 0
  THEN Emit(G, Event("taskGraphComplete", NoKey, NoResult))
  ELSE LET G1 == Rebuild(Emit(G, Event("taskGraphProcessing", NoKey, NoResult)))
           w == WalkRoots(G1, G1.roots, G1.inProgress, <<>>)
       IN ProcessBatch([G1 EXCEPT !.inProgress = w.inProgress], w.batch)

Loop(G) ==
  IF Len(G.index) = 0
  THEN Emit(G, Event("taskGraphComplete", NoKey, NoResult))
  ELSE LET G1 == Rebuild(Emit(G, Event("taskGraphProcessing", NoKey, NoResult)))
           w == WalkRoots(G1, G1.roots, G1.inProgress, <<>>)
       IN ProcessBatch([G1 EXCEPT !.inProgress = w.inProgress], w.batch)

\* addNode(node: TaskNode); n is the TaskNode built by process() for key k
RECURSIVE AddNode(_, _, _)
RECURSIVE AddDependencies(_, _, _)
AddDependencies(G, k, ds) ==
  IF ds = <<>> THEN G
  ELSE LET d == Head(ds)
           p == GetPredecessor(G, d)
           dependency == IF p # NoKey THEN p ELSE d
           depResult == CacheGet(G.cache, dependency)
       IN IF ~G.node[dependency].force /\ depResult # NoResult
          THEN AddDependencies(RemoveDependency(G, k, d), k, Tail(ds))
          ELSE AddDependencies(
                 AddDependant(AddNode(G, dependency, G.node[dependency]), dependency, k),
                 k, Tail(ds))

AddNode(G, k, n) ==
  IF Contains(G.index, k) THEN G
  ELSE LET predecessor == GetPredecessor(G, k) IN
    IF predecessor # NoKey /\ Contains(G.inProgress, predecessor)
    THEN Inherit(IndexAdd(G, k, n), predecessor, k)
    ELSE LET nk == IF predecessor # NoKey THEN predecessor ELSE k
             nn == IF predecessor # NoKey THEN G.node[predecessor] ELSE n
             result == CacheGet(G.cache, nk)
         IN IF ~nn.force /\ result # NoResult
            THEN Emit(G, Event("taskComplete", nk, result))
            ELSE LET G1 == IndexAdd(G, nk, nn)
                     G2 == AddDependencies(G1, nk, SetToSeq(G1.node[nk].dependencies))
                     G3 == IF G2.node[nk].dependencies = {}
                           THEN [G2 EXCEPT !.roots = MapAdd(@, nk)] ELSE G2
                 IN Loop(G3)

RECURSIVE AddNodes(_, _, _)
AddNodes(G, ks, nodes) ==
  IF ks = <<>> THEN G ELSE AddNodes(AddNode(G, Head(ks), nodes[Head(ks)]), Tail(ks), nodes)

---------------------------------------------------------------------------
(* TaskGraph: adding a task together with its declared dependencies.       *)

\* getNode(task): the node to index for the task, NoKey for null
GetNode(G, k, force) ==
  LET same == SelectSeq(G.index, LAMBDA n : BaseKey(n) = BaseKey(k) /\ n # k)
      existing == IF same = <<>> THEN NoKey ELSE same[Len(same)]
      cachedResultExists == CacheGet(G.cache, BaseKey(k)) # NoResult
  IN IF existing # NoKey THEN existing
     ELSE IF cachedResultExists /\ ~force THEN NoKey
     ELSE k

\* addNodeWithDependencies(task), with addNode(task: BaseTask) inlined
RECURSIVE AddNodeWithDependencies(_, _, _)
RECURSIVE AddEach(_, _)
AddEach(G, ds) ==
  IF ds = <<>> THEN G
  ELSE AddEach(AddNodeWithDependencies(G, Head(ds), FALSE), Tail(ds))

AddNodeWithDependencies(G, k, force) ==
  LET nk == GetNode(G, k, force) IN
  IF nk = NoKey THEN G
  ELSE LET G1 == IndexAdd(G, nk, [NoNode EXCEPT !.force = force])
           G2 == [G1 EXCEPT !.taskDependencyCache[nk] = {BaseKey(d) : d \in DepTasks(nk)}]
       IN AddEach(G2, SetToSeq(DepTasks(nk)))

---------------------------------------------------------------------------
(* The operations.                                                         *)

Init ==
  /\ concurrencyLimit \in 1..MaxConcurrency
  /\ index = <<>>
  /\ roots = <<>>
  /\ inProgress = <<>>
  /\ node = [k \in Keys |-> NoNode]
  /\ taskDependencyCache = [k \in Keys |-> {}]
  /\ cache = [k \in Keys |-> NoResult]
  /\ cacheLength = 0
  /\ eventLog = <<>>
  /\ calls = <<>>
  /\ running = {}
  /\ orphans = [k \in Keys |-> 0]
  /\ processCalls = [k \in Keys |-> 0]
  /\ trapped = 0
  /\ IdleRest

Task == [key : Keys, force : BOOLEAN]

Batches == UNION {[1..n -> Task] : n \in 0..MaxBatch}

\* the keys of a batch in the order in which they enter the nodes object
RECURSIVE NodeKeys(_)
NodeKeys(tasks) ==
  IF tasks = <<>> THEN <<>>
  ELSE LET front == NodeKeys(SubSeq(tasks, 1, Len(tasks) - 1))
       IN MapAdd(front, tasks[Len(tasks)].key)

\* nodes[task.getKey()] = new TaskNode(task, parent): a later task replaces an earlier one
NodeOf(tasks, parent, k) ==
  LET last == CHOOSE i \in DOMAIN tasks :
                /\ tasks[i].key = k
                /\ \A j \in DOMAIN tasks : tasks[j].key = k => j <= i
  IN [NoNode EXCEPT !.force = tasks[last].force, !.parent = parent]

\* the tasks whose bodies are executing, which may call process() as parent
Executing == running \cup {k \in Keys : orphans[k] > 0}

\* a task that is handed in again after it failed is not counted a second time
RECURSIVE SumNodes(_)
SumNodes(cs) ==
  IF cs = <<>> THEN 0
  ELSE Cardinality(Head(cs).nodes \ Head(cs).retried) + SumNodes(Tail(cs))

Pending == {i \in DOMAIN eventLog : eventLog[i].name = "taskPending"}

\* the last result of k is a failure
Failed(k) == cache[k] # NoResult /\ cache[k].error

RECURSIVE SumRetried(_)
SumRetried(cs) == IF cs = <<>> THEN 0 ELSE Cardinality(Head(cs).retried) + SumRetried(Tail(cs))

\* the tasks among ks that are handed in again after a failure, up to MaxRetry
\* of them, in the runs that go through process() alone
Retried(ks) ==
  LET failed == {k \in Range(ks) : Failed(k)}
  IN IF Pending = {} /\ SumRetried(calls) + Cardinality(failed) <= MaxRetry THEN failed ELSE {}

\* the number of tasks handed to the graph so far
Submitted == SumNodes(calls) + Cardinality(Pending)

\* process(tasks, parent)
Process(tasks, parent) ==
  /\ Len(calls) < MaxProcess
  /\ Submitted + Len(NodeKeys(tasks)) - Cardinality(Retried(NodeKeys(tasks))) <= MaxTasks
  /\ LET ks == NodeKeys(tasks)
         nodes == [k \in Range(ks) |-> NodeOf(tasks, parent, k)]
         call == [nodes |-> Range(ks), forced |-> {k \in Range(ks) : nodes[k].force},
                  parent |-> parent, retried |-> Retried(ks),
                  results |-> [k \in Keys |-> NoResult],
                  status |-> "pending", error |-> NoResult]
         G1 == [Graph EXCEPT !.calls = Append(@, call)]
     IN Becomes(AddNodes(G1, ks, nodes))

\* addTaskInternal(task)
AddTaskInternal(k, force) ==
  /\ Cardinality(Pending) < MaxAddTask
  /\ Submitted < MaxTasks
  /\ SumRetried(calls) = 0
  /\ LET G1 == Emit(Graph, Event("taskPending", k, NoResult))
     IN Becomes(Rebuild(AddNodeWithDependencies(G1, k, force)))

TaskResult(G, k, failed) ==
  [key |-> k, error |-> failed, completedAt |-> G.cacheLength + 1,
   dependencyResults |-> G.node[k].dependencyResults]

\* a completeTask() whose assertion looks at the dependants of the node
FinallyDependants(G, k, result) ==
  LET G1 == CachePut(G, result)
  IN IF \E n \in Range(G1.index) : k \in G1.node[n].dependencies
       THEN G1 ELSE Loop(Remove(G1, k))

\* the finally handler of processTask: when completeTask throws, loop() is not reached
Finally(G, k, result) ==
  LET G1 == CachePut(G, result)
  IN IF G1.node[k].dependencies # {} THEN G1 ELSE Loop(Remove(G1, k))

\* the graph in which the then handler of k runs: the body has returned and
\* the finally handler has not run
BodyReturned(k) == [Graph EXCEPT !.running = @ \ {k}]

\* the body of an indexed node returns: the then and finally handlers
FinishOk(k) ==
  /\ k \in running
  /\ LET G1 == BodyReturned(k)
         result == TaskResult(G1, k, FALSE)
     IN Becomes(Finally(Emit(G1, Event("taskComplete", k, result)), k, result))

\* a pipeline whose then handler runs after the catch handler as well
FinishErrorBoth(k) ==
  /\ k \in running
  /\ LET G1 == [Graph EXCEPT !.running = @ \ {k}]
         result == TaskResult(G1, k, TRUE)
         G2 == Emit(CancelDependants(G1, k), Event("taskError", k, result))
     IN Becomes(Finally(Emit(G2, Event("taskComplete", k, result)), k, result))

\* the body of an indexed node throws: the catch and finally handlers
FinishError(k) ==
  /\ k \in running
  /\ LET G1 == [Graph EXCEPT !.running = @ \ {k}]
         result == TaskResult(G1, k, TRUE)
         G2 == CancelDependants(G1, k)
     IN Becomes(Finally(Emit(G2, Event("taskError", k, result)), k, result))

\* a pipeline in which the error of the subscriber is thrown on by the catch handler too
FinishOkRethrown(k) ==
  /\ k \in running
  /\ trapped < MaxThrows
  /\ LET G1 == [Graph EXCEPT !.running = @ \ {k}, !.trapped = @ + 1]
         result == TaskResult(G1, k, FALSE)
         failed == [result EXCEPT !.error = TRUE]
         G2 == CancelDependants(Emit(G1, Event("taskComplete", k, result)), k)
     IN Becomes(Finally(Emit(G2, Event("taskError", k, failed)), k, failed))

\* the body of an indexed node returns and a subscriber throws on taskComplete:
\* an error that reaches the then handler sends the pipeline to the catch handler
FinishOkThrowing(k) ==
  /\ k \in running
  /\ trapped < MaxThrows
  /\ LET G1 == [Graph EXCEPT !.running = @ \ {k}]
         result == TaskResult(G1, k, FALSE)
         failed == [result EXCEPT !.error = TRUE]
         e == EmitGuarded(G1, Event("taskComplete", k, result))
         G2 == CancelDependants(e.G, k)
     IN IF e.thrown
        THEN Becomes(Finally(Emit(G2, Event("taskError", k, failed)), k, failed))
        ELSE Becomes(Finally(e.G, k, result))

\* the body of an indexed node throws and a subscriber throws on taskError:
\* the finally handler runs whether or not the catch handler throws
FinishErrorThrowing(k) ==
  /\ k \in running
  /\ trapped < MaxThrows
  /\ LET G1 == [Graph EXCEPT !.running = @ \ {k}]
         result == TaskResult(G1, k, TRUE)
         G2 == CancelDependants(G1, k)
         e == EmitGuarded(G2, Event("taskError", k, result))
     IN Becomes(Finally(e.G, k, result))

\* the body of a node that was removed while executing settles; its node kept
\* the dependencies it was cancelled for, so completeTask throws
OrphanResult(G, k, failed) ==
  [key |-> k, error |-> failed, completedAt |-> G.cacheLength + 1, dependencyResults |-> {}]

FinishOrphanOk(k) ==
  /\ orphans[k] > 0
  /\ LET G1 == [Graph EXCEPT !.orphans[k] = @ - 1]
         result == OrphanResult(G1, k, FALSE)
     IN Becomes(CachePut(Emit(G1, Event("taskComplete", k, result)), result))

FinishOrphanError(k) ==
  /\ orphans[k] > 0
  /\ LET G1 == [Graph EXCEPT !.orphans[k] = @ - 1]
         result == OrphanResult(G1, k, TRUE)
         G2 == CancelDependants(G1, k)
     IN Becomes(CachePut(Emit(G2, Event("taskError", k, result)), result))

Next ==
  \/ \E tasks \in Batches : \E parent \in {NoParent} \cup {Type(k) : k \in Executing} :
       Process(tasks, parent)
  \/ \E k \in Keys : \E force \in BOOLEAN : AddTaskInternal(k, force)
  \/ \E k \in Keys : FinishOk(k)
  \/ \E k \in Keys : FinishError(k)
  \/ \E k \in Keys : FinishOrphanOk(k)
  \/ \E k \in Keys : FinishOrphanError(k)

Spec == Init /\ [][Next]_vars

\* the graph driven through process() alone
NextProcess ==
  \/ \E tasks \in Batches : \E parent \in {NoParent} \cup {Type(k) : k \in Executing} :
       Process(tasks, parent)
  \/ \E k \in Keys : FinishOk(k)
  \/ \E k \in Keys : FinishError(k)

SpecProcess == Init /\ [][NextProcess]_vars

\* process(tasks) called from outside the task bodies
ProcessRequest(tasks) == Process(tasks, NoParent)

\* requests from outside
NextRequest ==
  \/ \E tasks \in Batches : ProcessRequest(tasks)
  \/ \E k \in Keys : FinishOk(k)
  \/ \E k \in Keys : FinishError(k)

\* the body of k ends: the step in which k stops running.  Under NextRequest
\* these are the steps FinishOk(k) and FinishError(k), which are enabled
\* exactly while k is running.
BodyEnds(k) ==
  /\ k \in running
  /\ \E left \in SUBSET (Keys \ {k}) : running' = left

\* every task body ends: the promise of a body that has been started is
\* fulfilled or rejected
BodiesEnd == \A k \in Keys : WF_running(BodyEnds(k))

SpecRequest == Init /\ [][NextRequest]_vars /\ BodiesEnd

\* the graph driven through process(), with subscribers that throw
NextSubscriber ==
  \/ \E tasks \in Batches : \E parent \in {NoParent} \cup {Type(k) : k \in Executing} :
       Process(tasks, parent)
  \/ \E k \in Keys : FinishOk(k)
  \/ \E k \in Keys : FinishError(k)
  \/ \E k \in Keys : FinishOkThrowing(k)
  \/ \E k \in Keys : FinishErrorThrowing(k)

SpecSubscriber == Init /\ [][NextSubscriber]_vars

---------------------------------------------------------------------------
(* The result cache on its own, with a small MAX_CACHE_SIZE.               *)

CacheSize == 5       \* stands for MAX_CACHE_SIZE
MaxPuts == 6         \* put() calls

\* the keys of the results, in the order in which they are first stored
CacheKeySeq == <<"k1", "k2", "k3", "k4", "k5", "k6">>

InitCache ==
  /\ concurrencyLimit \in 1..MaxConcurrency
  /\ index = <<>>
  /\ roots = <<>>
  /\ inProgress = <<>>
  /\ node = [k \in Keys |-> NoNode]
  /\ taskDependencyCache = [k \in Keys |-> {}]
  /\ cache = [k \in Range(CacheKeySeq) |-> NoResult]
  /\ cacheLength = 0
  /\ eventLog = <<>>
  /\ calls = <<>>
  /\ running = {}
  /\ orphans = [k \in Keys |-> 0]
  /\ processCalls = [k \in Keys |-> 0]
  /\ trapped = 0
  /\ IdleRest

\* a body settles: its result is emitted and then put into the cache
Store(k, failed) ==
  /\ cacheLength < MaxPuts
  /\ \E i \in 1..Len(CacheKeySeq) : i <= cacheLength + 1 /\ k = CacheKeySeq[i]
  /\ LET result == [key |-> k, error |-> failed, completedAt |-> cacheLength + 1,
                    dependencyResults |-> {}]
         name == IF failed THEN "taskError" ELSE "taskComplete"
     IN Becomes(CachePutAt(Emit(Graph, Event(name, k, result)), result, CacheSize))

NextCache == \E k \in Range(CacheKeySeq) : \E failed \in BOOLEAN : Store(k, failed)

SpecCache == InitCache /\ [][NextCache]_vars

---------------------------------------------------------------------------
(* The task graph while another part of garden-service runs.               *)

IdleGraph ==
  /\ concurrencyLimit = 1
  /\ index = <<>>
  /\ roots = <<>>
  /\ inProgress = <<>>
  /\ node = [k \in Keys |-> NoNode]
  /\ taskDependencyCache = [k \in Keys |-> {}]
  /\ cache = [k \in Keys |-> NoResult]
  /\ cacheLength = 0
  /\ eventLog = <<>>
  /\ calls = <<>>
  /\ running = {}
  /\ orphans = [k \in Keys |-> 0]
  /\ processCalls = [k \in Keys |-> 0]
  /\ trapped = 0

---------------------------------------------------------------------------
(* ConfigContext.resolve() and resolveTemplateString().                    *)
(*                                                                         *)
(* The keys resolved are ["variables", k]: the first segment finds the     *)
(* map of variables, the second the value.  A template string holds one    *)
(* reference.  Each activation of resolve() is a frame; the awaits of the  *)
(* chain resolve -> resolveTemplateString -> getKey -> resolve are the     *)
(* steps.                                                                  *)

MaxDepth == 4        \* activations of resolve() that are open at once
MaxResolve == 2      \* outermost resolve() calls

Frame(k, stack) == [key |-> k, stack |-> stack, pc |-> "enter", value |-> Undefined]

\* the stack that context.resolve receives from getKey: resolveTemplateString
\* is given the stack as its opts and getKey passes { key, nodePath, opts },
\* so the stack parameter of resolve() is undefined and starts again as []
StackParam(opts) == <<>>

\* the activation on top returns v to its caller
Return(v) ==
  /\ variables' = variables
  /\ resolveCalls' = resolveCalls
  /\ IF Len(frames) = 1
     THEN /\ frames' = <<>>
          /\ resolveOutcome' = "value"
     ELSE /\ frames' = [SubSeq(frames, 1, Len(frames) - 1) EXCEPT
                         ![Len(frames) - 1].pc = "resume",
                         ![Len(frames) - 1].value = v]
          /\ resolveOutcome' = resolveOutcome

\* a ConfigurationError leaves every open activation: none of them catches
Throw(err) ==
  /\ frames' = <<>>
  /\ resolveOutcome' = err
  /\ UNCHANGED <<variables, resolvedValues, resolveCalls>>

InitResolve ==
  /\ IdleGraph
  /\ IdleGarden
  /\ IdlePlugins
  /\ IdleVersions
  /\ IdleStore
  /\ IdleMaven
  /\ IdleNamespaces
  /\ variables \in [CtxKeys -> {Undefined, Literal} \cup {Template(k) : k \in CtxKeys}]
  /\ resolvedValues = [k \in CtxKeys |-> Undefined]
  /\ frames = <<>>
  /\ resolveOutcome = "none"
  /\ resolveCalls = 0

\* resolve({ key: ["variables", k], nodePath: [] }) called from outside
ResolveKey(k) ==
  /\ frames = <<>>
  /\ resolveCalls < MaxResolve
  /\ frames' = <<Frame(k, <<>>)>>
  /\ resolveOutcome' = "pending"
  /\ resolveCalls' = resolveCalls + 1
  /\ UNCHANGED <<variables, resolvedValues>>
  /\ UNCHANGED exceptContext

\* resolve() from its entry to its first await on another resolve(), or to its end
Enter ==
  /\ frames # <<>>
  /\ LET f == frames[Len(frames)]
         value == variables[f.key]
         stack == Append(f.stack, f.key)
     IN /\ f.pc = "enter"
        /\ IF resolvedValues[f.key] # Undefined
           THEN Return(resolvedValues[f.key]) /\ UNCHANGED resolvedValues
           ELSE IF f.key \in Range(f.stack)
           THEN Throw("circular")
           ELSE IF value = Undefined
           THEN Throw("missing")
           ELSE IF value = Literal
           THEN Return(value) /\ resolvedValues' = [resolvedValues EXCEPT ![f.key] = value]
           ELSE /\ Len(frames) < MaxDepth
                /\ frames' = Append([frames EXCEPT ![Len(frames)].pc = "await",
                                                   ![Len(frames)].stack = stack],
                                     Frame(value.key, StackParam(stack)))
                /\ UNCHANGED <<variables, resolvedValues, resolveOutcome, resolveCalls>>
  /\ UNCHANGED exceptContext

\* resolve() after the template string of its value has been resolved
Resume ==
  /\ frames # <<>>
  /\ LET f == frames[Len(frames)]
     IN /\ f.pc = "resume"
        /\ Return(f.value)
        /\ resolvedValues' = [resolvedValues EXCEPT ![f.key] = f.value]
  /\ UNCHANGED exceptContext

NextResolve ==
  \/ \E k \in CtxKeys : ResolveKey(k)
  \/ Enter
  \/ Resume

SpecResolve == InitResolve /\ [][NextResolve]_vars

---------------------------------------------------------------------------
(* Garden: the registry of module configs (garden.ts).                     *)
(*                                                                         *)
(* A module has at most one service, one task and one test.  scanModules() *)
(* adds the modules it finds one by one, in any order, and then looks for  *)
(* circular dependencies.  A scan that was rejected is not repeated: the   *)
(* repeated scan would find every module registered already.               *)

Call(op, name, force, error) ==
  [op |-> op, name |-> name, force |-> force, error |-> error, paths |-> <<>>]

\* the position of the config of that name in moduleConfigs, 0 if there is none
ConfigAt(configs, name) ==
  IF \E i \in DOMAIN configs : configs[i].name = name
  THEN CHOOSE i \in DOMAIN configs : configs[i].name = name
  ELSE 0

\* the edges that the configs declare: module to module, and service or task to
\* the names they depend on at run time
DeclaredEdges(configs) ==
  UNION {{<<configs[i].name, d>> : d \in configs[i].build}
         \cup {<<configs[i].service.name, d>> : d \in configs[i].service.dependencies}
         \cup {<<configs[i].task.name, d>> : d \in configs[i].task.dependencies}
         : i \in DOMAIN configs}

\* the nodes that can be reached from the nodes of S along the edges
RECURSIVE Reachable(_, _)
Reachable(edges, S) ==
  LET T == S \cup {e[2] : e \in {e \in edges : e[1] \in S}}
  IN IF T = S THEN S ELSE Reachable(edges, T)

Cyclic(edges) ==
  \E e \in edges : e[1] \in Reachable(edges, {e[2]})

\* util/detectCycles, which garden.ts imports: a cycle among the build
\* dependencies or among the runtime dependencies is a configuration error
DetectCircularDependencies(configs) ==
  IF Cyclic(DeclaredEdges(configs)) THEN "ConfigurationError" ELSE "none"

\* addModule(config, force) without the check for a registered name
AddModuleUnchecked(config, force) ==
  /\ ~modulesScanned
  /\ LET at == ConfigAt(moduleConfigs, config.name)
     IN /\ gardenCall' = Call("addModule", config.name, force, "none")
        /\ moduleConfigs' = IF at # 0 THEN [moduleConfigs EXCEPT ![at] = config]
                                       ELSE Append(moduleConfigs, config)
  /\ UNCHANGED <<modulesScanned, scanRejected, configGraph>>
  /\ UNCHANGED exceptGarden

\* Garden.addModule(config, force): the error names the path of the registered
\* config and the path of the new one
AddModule(config, force) ==
  /\ ~modulesScanned
  /\ LET at == ConfigAt(moduleConfigs, config.name)
     IN IF ~force /\ at # 0
        THEN /\ gardenCall' = [Call("addModule", config.name, force, "ConfigurationError")
                                 EXCEPT !.paths = <<moduleConfigs[at].path, config.path>>]
             /\ scanRejected' = TRUE
             /\ UNCHANGED moduleConfigs
        ELSE /\ gardenCall' = Call("addModule", config.name, force, "none")
             /\ moduleConfigs' = IF at # 0 THEN [moduleConfigs EXCEPT ![at] = config]
                                            ELSE Append(moduleConfigs, config)
             /\ UNCHANGED scanRejected
  /\ UNCHANGED <<modulesScanned, configGraph>>
  /\ UNCHANGED exceptGarden

\* the end of Garden.scanModules(), after the last module has been added
ScanModules ==
  /\ ~modulesScanned
  /\ ~scanRejected
  /\ modulesScanned' = TRUE
  /\ LET error == DetectCircularDependencies(moduleConfigs)
     IN /\ gardenCall' = Call("scanModules", "", FALSE, error)
        /\ scanRejected' = (error # "none")
  /\ UNCHANGED <<moduleConfigs, configGraph>>
  /\ UNCHANGED exceptGarden

---------------------------------------------------------------------------
(* ConfigGraph (config/config-graph.ts).                                   *)
(*                                                                         *)
(* A node is <<type, name>>, as nodeKey() names it; an edge leads from a   *)
(* node to a node it depends on.  serviceMap and taskMap are the names     *)
(* that have been added.  A graph whose error is not "none" is one whose   *)
(* constructor threw.                                                      *)

NewGraph == [index |-> {}, edges |-> {}, serviceMap |-> {}, taskMap |-> {}, error |-> "none"]

\* ConfigGraph.getNode
ConfigGetNode(g, key) == [g EXCEPT !.index = @ \cup {key}]

\* ConfigGraph.addRelation
AddRelation(g, dependant, dependency) ==
  [ConfigGetNode(g, dependency) EXCEPT !.edges = @ \cup {<<dependant, dependency>>}]

\* the loop over the dependencies of a service, task or test: a name that is
\* not in serviceMap is looked up in taskMap, and this.taskMap[depName].module
\* throws a TypeError if it is not there either
RECURSIVE AddRuntimeDependencies(_, _, _)
AddRuntimeDependencies(g, dependant, deps) ==
  IF deps = {} THEN g
  ELSE LET d == CHOOSE x \in deps : TRUE
       IN IF d \in g.serviceMap
          THEN AddRuntimeDependencies(AddRelation(g, dependant, <<"service", d>>), dependant, deps \ {d})
          ELSE IF d \in g.taskMap
          THEN AddRuntimeDependencies(AddRelation(g, dependant, <<"task", d>>), dependant, deps \ {d})
          ELSE [g EXCEPT !.error = "TypeError"]

\* ConfigGraph.addService
AddService(g, moduleKey, serviceConfig) ==
  IF serviceConfig.name \in g.serviceMap
  THEN [g EXCEPT !.error = "ConfigurationError"]
  ELSE LET serviceNode == <<"service", serviceConfig.name>>
           g1 == ConfigGetNode([g EXCEPT !.serviceMap = @ \cup {serviceConfig.name}], serviceNode)
       IN AddRuntimeDependencies(AddRelation(g1, serviceNode, <<"build", moduleKey>>),
                                 serviceNode, serviceConfig.dependencies)

\* ConfigGraph.addTask
AddTask(g, moduleKey, taskConfig) ==
  IF taskConfig.name \in g.serviceMap \/ taskConfig.name \in g.taskMap
  THEN [g EXCEPT !.error = "ConfigurationError"]
  ELSE LET taskNode == <<"task", taskConfig.name>>
           g1 == ConfigGetNode([g EXCEPT !.taskMap = @ \cup {taskConfig.name}], taskNode)
       IN AddRuntimeDependencies(AddRelation(g1, taskNode, <<"build", moduleKey>>),
                                 taskNode, taskConfig.dependencies)

\* ConfigGraph.addTest: the test is named <module>.<name>
AddTest(g, moduleKey, testConfig) ==
  LET testNode == <<"test", moduleKey>>
      g1 == ConfigGetNode(g, testNode)
  IN AddRuntimeDependencies(AddRelation(g1, testNode, <<"build", moduleKey>>),
                            testNode, testConfig.dependencies)

\* one of the three map() calls of the constructor; an error thrown earlier
\* has left the constructor
AddConfigs(g, module, kind) ==
  LET entity == IF kind = "service" THEN module.service
                ELSE IF kind = "task" THEN module.task ELSE module.test
  IN IF g.error # "none" \/ entity = NoEntity THEN g
     ELSE IF kind = "service" THEN AddService(g, module.name, entity)
     ELSE IF kind = "task" THEN AddTask(g, module.name, entity)
     ELSE AddTest(g, module.name, entity)

RECURSIVE AddBuildDependencies(_, _, _)
AddBuildDependencies(g, buildNode, deps) ==
  IF deps = {} THEN g
  ELSE LET d == CHOOSE x \in deps : TRUE
       IN AddBuildDependencies(AddRelation(g, buildNode, <<"build", d>>), buildNode, deps \ {d})

\* the body of the loop over the modules in the constructor
AddGraphModule(g, module) ==
  LET buildNode == <<"build", module.name>>
      g1 == AddBuildDependencies(ConfigGetNode(g, buildNode), buildNode, module.build)
      g2 == AddConfigs(g1, module, "service")
      g3 == AddConfigs(g2, module, "task")
  IN AddConfigs(g3, module, "test")

\* new ConfigGraph(modules), from the graph built so far
RECURSIVE ConfigGraphFrom(_, _)
ConfigGraphFrom(g, modules) ==
  IF modules = <<>> \/ g.error # "none" THEN g
  ELSE ConfigGraphFrom(AddGraphModule(g, Head(modules)), Tail(modules))

ConfigGraph(modules) == ConfigGraphFrom(NewGraph, modules)

\* getConfigGraph(): ResolveConfigTask gets the module configs, which scans
\* first unless modulesScanned is set, and constructs the graph from them
GetConfigGraph ==
  /\ modulesScanned
  /\ LET graph == ConfigGraph(moduleConfigs)
     IN /\ configGraph' = graph
        /\ gardenCall' = Call("getConfigGraph", "", FALSE, graph.error)
  /\ UNCHANGED <<moduleConfigs, modulesScanned, scanRejected>>
  /\ UNCHANGED exceptGarden

\* the module configs of the specification of the graph
ServiceConfigs == {NoEntity} \cup [name : {"p", "q"}, dependencies : {{}, {"q"}}]

TaskConfigs == {NoEntity} \cup [name : {"p", "q"}, dependencies : {{}, {"p"}}]

TestConfigs == {NoEntity} \cup [name : {"test"}, dependencies : {{"p"}, {"u"}}]

GraphConfigs ==
  {c \in [name : ModuleNames, path : {"dir"}, build : SUBSET ModuleNames,
          service : ServiceConfigs, task : TaskConfigs, test : TestConfigs] :
     c.name \notin c.build}

InitConfigGraph == IdleGraph /\ IdleContext /\ IdleGarden /\ IdlePlugins /\ IdleVersions /\ IdleMaven /\ IdleNamespaces /\ IdleStore

\* scanModules() adds a module of a project in which no two modules have the
\* same name
AddScannedModule(config) ==
  /\ ConfigAt(moduleConfigs, config.name) = 0
  /\ AddModule(config, FALSE)

NextConfigGraph ==
  \/ \E config \in GraphConfigs : AddScannedModule(config)
  \/ ScanModules
  \/ GetConfigGraph

SpecConfigGraph == InitConfigGraph /\ [][NextConfigGraph]_vars

---------------------------------------------------------------------------
(* Garden.addModule with modules declared under the same name.             *)

ModulePaths == {"dir1", "dir2", "dir3"}

\* the module configs that the directories of a project may declare
DeclaredConfigs ==
  [name : ModuleNames, path : ModulePaths, build : {{}},
   service : {NoEntity}, task : {NoEntity}, test : {NoEntity}]

InitModules == IdleGraph /\ IdleContext /\ IdleGarden /\ IdlePlugins /\ IdleVersions /\ IdleMaven /\ IdleNamespaces /\ IdleStore

NextModules ==
  \/ \E config \in DeclaredConfigs : \E force \in BOOLEAN : AddModule(config, force)
  \/ ScanModules

SpecModules == InitModules /\ [][NextModules]_vars

---------------------------------------------------------------------------
(* Garden.scanModules(force) called again after a scan.                    *)

\* the module configs of a project in which no two directories declare the
\* same name
ScannedConfigs ==
  {c \in [name : ModuleNames, path : ModulePaths, build : SUBSET ModuleNames,
          service : {NoEntity}, task : {NoEntity}, test : {NoEntity}] :
     c.name \notin c.build}

\* scanModules(true) after a scan that succeeded, on the same project: the
\* scan finds the configs it found before and calls addModule(config) for
\* each of them, without force; the first addModule that throws rejects the
\* scan, and which one is first depends on the order in which resolveModule
\* returns
RescanModules ==
  /\ modulesScanned
  /\ ~scanRejected
  /\ LET found == moduleConfigs
         thrown == {i \in DOMAIN found : ConfigAt(moduleConfigs, found[i].name) # 0}
     IN IF thrown # {}
        THEN /\ \E i \in thrown :
                  gardenCall' = [Call("scanModules", found[i].name, TRUE, "ConfigurationError")
                                   EXCEPT !.paths = <<moduleConfigs[ConfigAt(moduleConfigs, found[i].name)].path,
                                                      found[i].path>>]
             /\ scanRejected' = TRUE
        ELSE LET error == DetectCircularDependencies(moduleConfigs)
             IN /\ gardenCall' = Call("scanModules", "", TRUE, error)
                /\ scanRejected' = (error # "none")
  /\ UNCHANGED <<moduleConfigs, modulesScanned, configGraph>>
  /\ UNCHANGED exceptGarden

InitRescan == IdleGraph /\ IdleContext /\ IdleGarden /\ IdlePlugins /\ IdleVersions /\ IdleMaven /\ IdleNamespaces /\ IdleStore

NextRescan ==
  \/ \E config \in ScannedConfigs : AddScannedModule(config)
  \/ ScanModules
  \/ RescanModules

SpecRescan == InitRescan /\ [][NextRescan]_vars

---------------------------------------------------------------------------
(* Garden: plugins and action handlers (garden.ts), and the environment    *)
(* status of the ActionHelper (actions.ts).                                *)
(*                                                                         *)
(* The handlers of an action type are an object keyed by plugin name: its  *)
(* values come in the order in which the keys were first set.  A plugin    *)
(* can be loaded more than once.  The factory of a plugin returns the same *)
(* actions each time.                                                      *)

MaxLoads == 3        \* loadPlugin() calls

\* plugin.actions
Provides(pluginName) ==
  IF pluginName = "P3" THEN {} ELSE {"prepareEnvironment", "getEnvironmentStatus"}

\* plugin.moduleActions
ProvidesModule(pluginName) ==
  IF pluginName = "P2" THEN {} ELSE {<<"build", "container">>}

Handler(pluginName, actionType, moduleType) ==
  [pluginName |-> pluginName, actionType |-> actionType, moduleType |-> moduleType]

\* the defaultHandler of the caller, named after the default provider
DefaultHandler(actionType, moduleType) == Handler("_default", actionType, moduleType)

\* handlers[pluginName] = wrapped
PutHandler(handlers, h) ==
  IF \E i \in DOMAIN handlers : handlers[i].pluginName = h.pluginName
  THEN [i \in DOMAIN handlers |-> IF handlers[i].pluginName = h.pluginName THEN h ELSE handlers[i]]
  ELSE Append(handlers, h)

\* Garden.addActionHandler, for the actions of the plugin
AddActionHandler(handlers, pluginName) ==
  [t \in ActionTypes |->
     IF t \in Provides(pluginName)
     THEN PutHandler(handlers[t], Handler(pluginName, t, ""))
     ELSE handlers[t]]

\* Garden.addModuleActionHandler, for the module actions of the plugin
AddModuleActionHandler(handlers, pluginName) ==
  [t \in ModuleActionTypes |->
     IF t \in ProvidesModule(pluginName)
     THEN PutHandler(handlers[t], Handler(pluginName, t[1], t[2]))
     ELSE handlers[t]]

\* Garden.loadPlugin
LoadPlugin(pluginName) ==
  /\ Len(pluginLoads) < MaxLoads
  /\ loadedPlugins' = loadedPlugins \cup {pluginName}
  /\ actionHandlers' = AddActionHandler(actionHandlers, pluginName)
  /\ moduleActionHandlers' = AddModuleActionHandler(moduleActionHandlers, pluginName)
  /\ pluginLoads' = Append(pluginLoads, pluginName)
  /\ UNCHANGED handlerCall
  /\ UNCHANGED exceptPlugins

\* Garden.filterActionHandlers; getPlugin() is async, so for a plugin that is
\* not loaded it returns a rejected promise that nobody looks at
FilterActionHandlers(handlers, pluginName) ==
  IF pluginName = "" THEN handlers
  ELSE SelectSeq(handlers, LAMBDA h : h.pluginName = pluginName)

\* a picker that prefers the handler of the caller
PickDefaultFirst(handlers, pluginName, defaultHandler, default) ==
  IF defaultHandler
  THEN [handler |-> default, error |-> "none"]
  ELSE IF Len(handlers) > 0
  THEN [handler |-> handlers[Len(handlers)], error |-> "none"]
  ELSE [handler |-> NoHandler,
        error |-> IF pluginName # "" THEN "PluginError" ELSE "ParameterError"]

\* the choice that getActionHandler and getModuleActionHandler make among the
\* handlers: the last one, else the default, else an error
PickHandler(handlers, pluginName, defaultHandler, default) ==
  IF Len(handlers) > 0
  THEN [handler |-> handlers[Len(handlers)], error |-> "none"]
  ELSE IF defaultHandler
  THEN [handler |-> default, error |-> "none"]
  ELSE [handler |-> NoHandler,
        error |-> IF pluginName # "" THEN "PluginError" ELSE "ParameterError"]

HandlerCall(op, actionType, moduleType, pluginName, defaultHandler, returns, picked, statuses) ==
  [op |-> op, actionType |-> actionType, moduleType |-> moduleType, pluginName |-> pluginName,
   defaultHandler |-> defaultHandler,
   returns |-> IF picked.error = "none" THEN returns ELSE "nothing",
   handler |-> picked.handler, statuses |-> statuses, error |-> picked.error]

\* Garden.getActionHandler({ actionType, pluginName, defaultHandler })
GetActionHandler(actionType, pluginName, defaultHandler) ==
  /\ LET handlers == FilterActionHandlers(actionHandlers[actionType], pluginName)
         picked == PickHandler(handlers, pluginName, defaultHandler, DefaultHandler(actionType, ""))
     IN handlerCall' = HandlerCall("getActionHandler", actionType, "", pluginName, defaultHandler,
                                   "handler", picked, <<>>)
  /\ UNCHANGED <<loadedPlugins, actionHandlers, moduleActionHandlers, pluginLoads>>
  /\ UNCHANGED exceptPlugins

\* Garden.getModuleActionHandler({ actionType, moduleType, pluginName, defaultHandler })
GetModuleActionHandler(type, pluginName, defaultHandler) ==
  /\ LET handlers == FilterActionHandlers(moduleActionHandlers[type], pluginName)
         picked == PickHandler(handlers, pluginName, defaultHandler, DefaultHandler(type[1], type[2]))
     IN handlerCall' = HandlerCall("getModuleActionHandler", type[1], type[2], pluginName,
                                   defaultHandler, "handler", picked, <<>>)
  /\ UNCHANGED <<loadedPlugins, actionHandlers, moduleActionHandlers, pluginLoads>>
  /\ UNCHANGED exceptPlugins

\* ActionHelper.getEnvironmentStatus({ pluginName }).  actions.ts holds an
\* unresolved merge: the side "HEAD" calls every handler that
\* getActionHandlers returns and answers with a map keyed by plugin name, the
\* side "WIP" calls the one handler that getActionHandler picks and answers
\* with its status.
GetEnvironmentStatus(pluginName, side) ==
  /\ LET handlers == FilterActionHandlers(actionHandlers["getEnvironmentStatus"], pluginName)
         picked == PickHandler(handlers, pluginName, FALSE, NoHandler)
     IN handlerCall' =
          IF side = "HEAD"
          THEN HandlerCall("getEnvironmentStatus", "getEnvironmentStatus", "", pluginName, FALSE,
                           "map", [handler |-> NoHandler, error |-> "none"],
                           [i \in DOMAIN handlers |-> handlers[i].pluginName])
          ELSE HandlerCall("getEnvironmentStatus", "getEnvironmentStatus", "", pluginName, FALSE,
                           "status", picked, <<>>)
  /\ UNCHANGED <<loadedPlugins, actionHandlers, moduleActionHandlers, pluginLoads>>
  /\ UNCHANGED exceptPlugins

InitPlugins == IdleGraph /\ IdleContext /\ IdleGarden /\ IdlePlugins /\ IdleVersions /\ IdleMaven /\ IdleNamespaces /\ IdleStore

NextPlugins ==
  \/ \E pluginName \in Plugins : LoadPlugin(pluginName)
  \/ \E actionType \in ActionTypes : \E pluginName \in Plugins \cup {""} :
       \E defaultHandler \in BOOLEAN : GetActionHandler(actionType, pluginName, defaultHandler)
  \/ \E type \in ModuleActionTypes : \E pluginName \in Plugins \cup {""} :
       \E defaultHandler \in BOOLEAN : GetModuleActionHandler(type, pluginName, defaultHandler)
  \/ \E pluginName \in Plugins \cup {""} : \E side \in {"HEAD", "WIP"} :
       GetEnvironmentStatus(pluginName, side)

SpecPlugins == InitPlugins /\ [][NextPlugins]_vars

---------------------------------------------------------------------------
(* Garden.resolveVersion (garden.ts).                                      *)
(*                                                                         *)
(* The call runs to its await on the VCS handler, and from the answer of   *)
(* the VCS handler to its end; other calls and changes of the sources can  *)
(* come in between.  The TreeCache and the VCS handler are collaborators:  *)
(* the cache holds what was set under a key, and the version the VCS       *)
(* handler computes is a function of the trees of the module and of its    *)
(* dependencies, whatever their order.                                     *)

MaxVersionCalls == 3 \* resolveVersion() calls
MaxTouch == 1        \* changes of the source trees

NoVersion == [tree |-> -1, dependencyVersions |-> {}]

\* the names in the order of Array.prototype.sort
NameOrder == <<"a", "b", "m">>

\* depModuleNames as they are given
Unsorted(names) == names

\* depModuleNames.sort()
SortNames(names) == SelectSeq(NameOrder, LAMBDA n : n \in Range(names))

\* ["moduleVersions", moduleName, ...depModuleNames]
CacheKey(moduleName, moduleDependencies) ==
  <<"moduleVersions", moduleName>> \o SortNames(moduleDependencies)

\* TreeCache.get
TreeCacheGet(c, key) ==
  IF \E e \in c : e.key = key THEN (CHOOSE e \in c : e.key = key).value ELSE NoVersion

\* TreeCache.set
TreeCacheSet(c, key, value) ==
  {e \in c : e.key # key} \cup {[key |-> key, value |-> value]}

\* the cache without the entries that were set with the cache context of the
\* module: those of its own versions and of the modules that depend on it
TreeCacheInvalidate(c, x) ==
  {e \in c : x \notin Range(Tail(e.key))}

\* the number of changes of the source trees
RECURSIVE Changes(_, _)
Changes(src, S) ==
  IF S = {} THEN 0
  ELSE LET x == CHOOSE y \in S : TRUE IN src[x] + Changes(src, S \ {x})

\* VcsHandler.resolveVersion
VcsVersion(moduleName, moduleDependencies, src) ==
  [tree |-> src[moduleName],
   dependencyVersions |-> {<<d, src[d]>> : d \in Range(moduleDependencies)}]

VersionCall(moduleName, moduleDependencies, force) ==
  [moduleName |-> moduleName, moduleDependencies |-> moduleDependencies, force |-> force,
   pc |-> "vcs", consulted |-> FALSE, result |-> NoVersion,
   after |-> {i \in DOMAIN versionCalls : versionCalls[i].pc = "done"},
   sourcesAtStart |-> sources, sourcesAtEnd |-> sources]

\* resolveVersion(moduleName, moduleDependencies, force) up to the cache hit or
\* to the await on the VCS handler
ResolveVersion(moduleName, moduleDependencies, force) ==
  /\ Len(versionCalls) < MaxVersionCalls
  /\ LET call == VersionCall(moduleName, moduleDependencies, force)
         cached == TreeCacheGet(versionCache, CacheKey(moduleName, moduleDependencies))
     IN versionCalls' =
          IF ~force /\ cached # NoVersion
          THEN Append(versionCalls, [call EXCEPT !.pc = "done", !.result = cached])
          ELSE Append(versionCalls, call)
  /\ UNCHANGED <<versionCache, sources>>
  /\ UNCHANGED exceptVersions

\* the VCS handler answers: the version is set in the cache and returned
VcsResolves(i) ==
  /\ i \in DOMAIN versionCalls
  /\ versionCalls[i].pc = "vcs"
  /\ LET call == versionCalls[i]
         version == VcsVersion(call.moduleName, call.moduleDependencies, sources)
     IN /\ versionCache' = TreeCacheSet(versionCache,
                                        CacheKey(call.moduleName, call.moduleDependencies), version)
        /\ versionCalls' = [versionCalls EXCEPT ![i].pc = "done", ![i].consulted = TRUE,
                                                ![i].result = version, ![i].sourcesAtEnd = sources]
  /\ UNCHANGED sources
  /\ UNCHANGED exceptVersions

\* a file of the module changes, and the cache context of the module is
\* invalidated
Touch(x) ==
  /\ Changes(sources, VersionModules) < MaxTouch
  /\ sources' = [sources EXCEPT ![x] = @ + 1]
  /\ versionCache' = TreeCacheInvalidate(versionCache, x)
  /\ UNCHANGED versionCalls
  /\ UNCHANGED exceptVersions

\* the dependency lists a module is resolved with
DependencyLists == {<<>>, <<"a", "b">>, <<"b", "a">>}

InitVersions == IdleGraph /\ IdleContext /\ IdleGarden /\ IdlePlugins /\ IdleVersions /\ IdleMaven /\ IdleNamespaces /\ IdleStore

NextVersions ==
  \/ \E deps \in DependencyLists : \E force \in BOOLEAN : ResolveVersion("m", deps, force)
  \/ \E i \in 1..MaxVersionCalls : VcsResolves(i)
  \/ \E x \in VersionModules : Touch(x)

SpecVersions == InitVersions /\ [][NextVersions]_vars

---------------------------------------------------------------------------
(* ConfigStore (config-store.ts): set() and delete() of a LocalConfigStore. *)
(*                                                                         *)
(* A config is the set of the keys it holds.  The config objects live in   *)
(* storeHeap, because set() and delete() change the object that            *)
(* getConfig() returned in place, and that object is this.config itself    *)
(* (Object.assign(this.config, {}) returns its first argument).  validate  *)
(* returns the value of the Joi result, a new object.  A call runs up to   *)
(* its next await in one step; what follows the completion of a file       *)
(* operation runs after the continuations that are already due.            *)

MaxStoreCalls == 3   \* set() and delete() calls on the store

StoreCall(op, key) ==
  [op |-> op, key |-> key, pc |-> "load", config |-> NoObject, loaded |-> {},
   validated |-> NoObject, written |-> {}, error |-> "none"]

\* updateConfig(config, keyPath, value), and unset(config, keyPath)
UpdateConfig(config, op, key) ==
  IF op = "set" THEN config \cup {key} ELSE config \ {key}

\* set(keyPath, value) or delete(keyPath) up to the end of getConfig(): the
\* config that is loaded is returned, else the file is read
StartCall(op, key) ==
  /\ Len(storeCalls) < MaxStoreCalls
  /\ storeCalls' =
       Append(storeCalls,
              IF storeConfig # NoObject
              THEN [StoreCall(op, key) EXCEPT !.pc = "got", !.config = storeConfig]
              ELSE StoreCall(op, key))
  /\ UNCHANGED <<storeConfig, storeHeap, storeDisk>>
  /\ UNCHANGED exceptStore

\* a continuation of an await on an earlier getConfig() is due
Due == \E i \in DOMAIN storeCalls : storeCalls[i].pc = "got"

\* loadConfig(): readFile reads the file
ReadFile(i) ==
  /\ i \in DOMAIN storeCalls
  /\ storeCalls[i].pc = "load"
  /\ storeCalls' = [storeCalls EXCEPT ![i].pc = "read", ![i].loaded = storeDisk]
  /\ UNCHANGED <<storeConfig, storeHeap, storeDisk>>
  /\ UNCHANGED exceptStore

\* set() and delete() from the config object that getConfig() returned, in
\* heap, to the await in saveConfig(); current is this.config at that point
Continue(i, heap, ref, current) ==
  LET call == storeCalls[i]
      config == UpdateConfig(heap[ref], call.op, call.key)
  IN /\ IF call.op = "delete" /\ call.key \notin heap[ref]
        THEN /\ storeCalls' = [storeCalls EXCEPT ![i].pc = "done", ![i].config = ref,
                                                 ![i].error = "LocalConfigError"]
             /\ storeHeap' = heap
             /\ storeConfig' = current
        ELSE /\ storeCalls' = [storeCalls EXCEPT ![i].pc = "dump", ![i].config = ref,
                                                 ![i].validated = Len(heap) + 1,
                                                 ![i].written = config]
             /\ storeHeap' = Append([heap EXCEPT ![ref] = config], config)
             /\ storeConfig' = NoObject
     /\ UNCHANGED storeDisk
     /\ UNCHANGED exceptStore

\* the file has been read: loadConfig() sets this.config to the validated
\* content, getConfig() returns it and set() or delete() goes on
LoadConfig(i) ==
  /\ i \in DOMAIN storeCalls
  /\ storeCalls[i].pc = "read"
  /\ ~Due
  /\ LET heap == Append(storeHeap, storeCalls[i].loaded)
     IN Continue(i, heap, Len(heap), Len(heap))

\* the await on getConfig() ends with the config that was loaded at the call
ResumeCall(i) ==
  /\ i \in DOMAIN storeCalls
  /\ storeCalls[i].pc = "got"
  /\ Continue(i, storeHeap, storeCalls[i].config, storeConfig)

\* saveConfig(): dumpYaml writes the file
DumpYaml(i) ==
  /\ i \in DOMAIN storeCalls
  /\ storeCalls[i].pc = "dump"
  /\ storeDisk' = storeCalls[i].written
  /\ storeCalls' = [storeCalls EXCEPT ![i].pc = "written"]
  /\ UNCHANGED <<storeConfig, storeHeap>>
  /\ UNCHANGED exceptStore

\* saveConfig() after the await: this.config = validated
SaveConfig(i) ==
  /\ i \in DOMAIN storeCalls
  /\ storeCalls[i].pc = "written"
  /\ ~Due
  /\ storeConfig' = storeCalls[i].validated
  /\ storeCalls' = [storeCalls EXCEPT ![i].pc = "done"]
  /\ UNCHANGED <<storeHeap, storeDisk>>
  /\ UNCHANGED exceptStore

InitStore ==
  /\ IdleGraph /\ IdleContext /\ IdleGarden /\ IdlePlugins /\ IdleVersions /\ IdleMaven /\ IdleNamespaces
  /\ storeConfig = NoObject
  /\ storeHeap = <<>>
  /\ storeDisk \in SUBSET StoreKeys
  /\ storeCalls = <<>>

NextStore ==
  \/ \E op \in {"set", "delete"} : \E key \in StoreKeys : StartCall(op, key)
  \/ \E i \in 1..MaxStoreCalls : ReadFile(i)
  \/ \E i \in 1..MaxStoreCalls : LoadConfig(i)
  \/ \E i \in 1..MaxStoreCalls : ResumeCall(i)
  \/ \E i \in 1..MaxStoreCalls : DumpYaml(i)
  \/ \E i \in 1..MaxStoreCalls : SaveConfig(i)

SpecStore == InitStore /\ [][NextStore]_vars

---------------------------------------------------------------------------
(* The maven-container plugin: build() and the lock around mvn.            *)
(*                                                                         *)
(* buildLock.acquire("mvn", fn) of the async-lock package runs fn at once  *)
(* when no call holds the key and queues it otherwise; when the promise of *)
(* fn settles, the key is released and the first queued fn is run.         *)

MaxBuilds == 3   \* build() calls of maven-container modules

\* build(params) up to buildLock.acquire: the pom is read and the JDK found;
\* a pom without an artifactId is a ConfigurationError
StartBuild(artifactId) ==
  /\ Len(mavenBuilds) < MaxBuilds
  /\ mavenBuilds' = Append(mavenBuilds,
                           IF artifactId THEN [pc |-> "pom", error |-> "none"]
                           ELSE [pc |-> "done", error |-> "ConfigurationError"])
  /\ UNCHANGED buildLock
  /\ UNCHANGED <<exceptMaven>>

\* acquire without the lock: fn is run at once
AcquireUnlocked(i) ==
  /\ mavenBuilds' = [mavenBuilds EXCEPT ![i].pc = "mvn"]
  /\ UNCHANGED buildLock

\* buildLock.acquire("mvn", fn)
Acquire(i) ==
  /\ buildLock' = Append(buildLock, i)
  /\ mavenBuilds' = [mavenBuilds EXCEPT ![i].pc = IF buildLock = <<>> THEN "mvn" ELSE "queued"]

\* await buildLock.acquire("mvn", ...) in build()
AcquireBuildLock(i) ==
  /\ i \in DOMAIN mavenBuilds
  /\ mavenBuilds[i].pc = "pom"
  /\ Acquire(i)
  /\ UNCHANGED <<exceptMaven>>

\* maven.exec ends: the lock is released and the first queued build runs
\* mvn; the build goes on to the check for the artifact, or rejects if mvn
\* failed
MavenExec(i, ok) ==
  /\ i \in DOMAIN mavenBuilds
  /\ mavenBuilds[i].pc = "mvn"
  /\ LET rest == SelectSeq(buildLock, LAMBDA j : j # i)
         ended == [mavenBuilds EXCEPT ![i] = IF ok THEN [pc |-> "jar", error |-> "none"]
                                                  ELSE [pc |-> "done", error |-> "mvn"]]
     IN /\ buildLock' = rest
        /\ mavenBuilds' = IF rest = <<>> THEN ended
                          ELSE [ended EXCEPT ![Head(rest)].pc = "mvn"]
  /\ UNCHANGED <<exceptMaven>>

\* the rest of build(): the artifact is there and copied and the container
\* is built, or it is missing, a RuntimeError
FinishBuild(i, found) ==
  /\ i \in DOMAIN mavenBuilds
  /\ mavenBuilds[i].pc = "jar"
  /\ mavenBuilds' = [mavenBuilds EXCEPT ![i] = [pc |-> "done",
                                                error |-> IF found THEN "none" ELSE "RuntimeError"]]
  /\ UNCHANGED buildLock
  /\ UNCHANGED <<exceptMaven>>

InitMaven ==
  IdleGraph /\ IdleContext /\ IdleGarden /\ IdlePlugins /\ IdleVersions /\ IdleMaven /\ IdleNamespaces /\ IdleStore

NextMaven ==
  \/ \E artifactId \in BOOLEAN : StartBuild(artifactId)
  \/ \E i \in 1..MaxBuilds : AcquireBuildLock(i)
  \/ \E i \in 1..MaxBuilds : \E ok \in BOOLEAN : MavenExec(i, ok)
  \/ \E i \in 1..MaxBuilds : \E found \in BOOLEAN : FinishBuild(i, found)

SpecMaven == InitMaven /\ [][NextMaven]_vars

---------------------------------------------------------------------------
(* The kubernetes plugin: ensureNamespace (plugins/kubernetes/namespace.ts). *)
(*                                                                         *)
(* created is the module-level record of the namespaces; cluster is what   *)
(* the API server holds.  A request to the API is answered in one step.    *)

MaxNamespaceCalls == 3   \* ensureNamespace() calls

NamespaceCall(namespace) ==
  [namespace |-> namespace, pc |-> "list", exists |-> FALSE, error |-> "none"]

\* the call returns: whether the namespace exists at that moment, in the
\* cluster as it is then, is recorded
Returned(call, now) == [call EXCEPT !.pc = "done", !.exists = call.namespace \in now]

\* ensureNamespace(api, namespace) up to the await on listNamespace(), or to
\* its end when created[namespace] is set
EnsureNamespace(namespace) ==
  /\ Len(namespaceCalls) < MaxNamespaceCalls
  /\ IF created[namespace] # "none"
     THEN /\ namespaceCalls' = Append(namespaceCalls, Returned(NamespaceCall(namespace), cluster))
          /\ UNCHANGED created
     ELSE /\ namespaceCalls' = Append(namespaceCalls, NamespaceCall(namespace))
          /\ created' = [created EXCEPT ![namespace] = "pending"]
  /\ UNCHANGED cluster
  /\ UNCHANGED <<exceptNamespaces>>

\* listNamespace() answers: the Active namespaces are marked as created; the
\* call returns if its namespace is among them and asks for its creation
\* otherwise.  A request that fails rejects the call.
ListNamespace(i, ok) ==
  /\ i \in DOMAIN namespaceCalls
  /\ namespaceCalls[i].pc = "list"
  /\ UNCHANGED cluster
  /\ IF ~ok
     THEN /\ namespaceCalls' = [namespaceCalls EXCEPT ![i].pc = "done", ![i].error = "list"]
          /\ UNCHANGED created
     ELSE LET marked == [n \in Namespaces |-> IF n \in cluster THEN "created" ELSE created[n]]
          IN /\ created' = marked
             /\ namespaceCalls' =
                  [namespaceCalls EXCEPT ![i] =
                     IF marked[namespaceCalls[i].namespace] # "created"
                     THEN [@ EXCEPT !.pc = "create"]
                     ELSE Returned(@, cluster)]
  /\ UNCHANGED <<exceptNamespaces>>

\* createNamespace() answers: the namespace is created and marked, or the
\* request is refused because the namespace exists and the call rejects
CreateNamespace(i) ==
  /\ i \in DOMAIN namespaceCalls
  /\ namespaceCalls[i].pc = "create"
  /\ LET namespace == namespaceCalls[i].namespace
     IN IF namespace \in cluster
        THEN /\ namespaceCalls' = [namespaceCalls EXCEPT ![i].pc = "done", ![i].error = "create"]
             /\ UNCHANGED <<created, cluster>>
        ELSE /\ cluster' = cluster \cup {namespace}
             /\ created' = [created EXCEPT ![namespace] = "created"]
             /\ namespaceCalls' = [namespaceCalls EXCEPT ![i] = Returned(@, cluster \cup {namespace})]
  /\ UNCHANGED <<exceptNamespaces>>

InitNamespaces ==
  /\ IdleGraph /\ IdleContext /\ IdleGarden /\ IdlePlugins /\ IdleVersions /\ IdleStore /\ IdleMaven
  /\ created = [n \in Namespaces |-> "none"]
  /\ cluster \in SUBSET Namespaces
  /\ namespaceCalls = <<>>

NextNamespaces ==
  \/ \E namespace \in Namespaces : EnsureNamespace(namespace)
  \/ \E i \in 1..MaxNamespaceCalls : \E ok \in BOOLEAN : ListNamespace(i, ok)
  \/ \E i \in 1..MaxNamespaceCalls : CreateNamespace(i)

SpecNamespaces == InitNamespaces /\ [][NextNamespaces]_vars

---------------------------------------------------------------------------
(* Vocabulary of the properties.                                           *)

BaseKeys == {BaseKey(k) : k \in Keys}

Terminal == {"taskComplete", "taskError"}

\* the events emitted by the step
NewEvents == SubSeq(eventLog', Len(eventLog) + 1, Len(eventLog'))

\* the step is a process() call; NewCall is the call it registered
IsProcessStep == Len(calls') = Len(calls) + 1

NewCall == calls'[Len(calls')]

\* b declares a dependency on a's baseKey
DirectDep(b, a) == \E d \in DepTasks(b) : BaseKey(d) = BaseKey(a)

RECURSIVE DeclaredDeps(_)
DeclaredDeps(k) == DepTasks(k) \cup UNION {DeclaredDeps(d) : d \in DepTasks(k)}

\* b depends on a's baseKey, directly or through other tasks
DependsOn(b, a) == \E d \in DeclaredDeps(b) : BaseKey(d) = BaseKey(a)

\* the body of k throws in this step
Fails(k) == \E i \in DOMAIN NewEvents : NewEvents[i].name = "taskError" /\ NewEvents[i].key = k

\* the number of bodies of k that are executing
ExecutingCount(k) == (IF k \in running THEN 1 ELSE 0) + orphans[k]

RECURSIVE SumProcessCalls(_)
SumProcessCalls(S) ==
  IF S = {} THEN 0
  ELSE LET k == CHOOSE x \in S : TRUE IN processCalls[k] + SumProcessCalls(S \ {k})

---------------------------------------------------------------------------
(* C1 *)

\* C1: the body of a task is not started while a task it depends on is still
\* in the graph, that is, before that task has completed.
C1_DependencyOrder ==
  [][\A b \in Keys : processCalls'[b] > processCalls[b] =>
       \A a \in Range(index') : ~DirectDep(b, a)]_vars

(* C2 *)

\* C2: when the body of a task fails, every task in the graph that depends on
\* it, directly or transitively, is removed and its body has not been started.
C2_CancellationCascade ==
  [][\A t \in Keys : Fails(t) =>
       \A d \in Range(index) : DependsOn(d, t) =>
         d \notin Range(index') /\ d \notin running]_vars

(* C3 *)

\* C3: two tasks with the same baseKey never execute their bodies at the same time.
C3_BaseKeyExclusive ==
  \A x \in running : \A y \in running : x # y => BaseKey(x) # BaseKey(y)

(* C4 *)

SubmittedKeys(bk) == {k \in Keys : BaseKey(k) = bk /\ \E i \in DOMAIN calls : k \in calls[i].nodes}

ForcedBaseKey(bk) == \E i \in DOMAIN calls : \E k \in calls[i].forced : BaseKey(k) = bk

FailedBaseKey(bk) ==
  \E i \in DOMAIN eventLog : eventLog[i].name = "taskError" /\ BaseKey(eventLog[i].key) = bk

\* C4: for non-forced tasks with the same baseKey, none of which failed, the
\* number of body starts never exceeds the number of distinct keys submitted.
C4_Deduplication ==
  \A bk \in BaseKeys :
    ~ForcedBaseKey(bk) /\ ~FailedBaseKey(bk) =>
      SumProcessCalls({k \in Keys : BaseKey(k) = bk}) <= Cardinality(SubmittedKeys(bk))

(* C5 *)

\* the in-progress nodes of a type that were not enqueued by a parent of that type
Throttled(t) == {k \in Range(inProgress) : Type(k) = t /\ node[k].parent # t}

\* C5: inProgress never holds more nodes than the global limit, every indexed
\* node whose body is executing is in inProgress, and inProgress never holds
\* more nodes of a limited type, not counting those enqueued by a same-type
\* parent, than the limit of the type.
C5_ConcurrencyCeiling ==
  /\ Len(inProgress) <= concurrencyLimit
  /\ running \subseteq Range(inProgress)
  /\ \A k \in Keys : TaskLimit(k) # 0 => Cardinality(Throttled(Type(k))) <= TaskLimit(k)

\* a node enqueued by a same-type parent is in progress beyond the limit of its type
C5_Witness ==
  \E k \in Range(inProgress) :
    /\ node[k].parent = Type(k)
    /\ Cardinality({n \in Range(inProgress) : Type(n) = Type(k)}) > TaskLimit(k)
    /\ Len(inProgress) = concurrencyLimit

(* C6 *)

\* C6: once the body of a key has been started, the log holds a taskPending
\* event for the key followed by a taskProcessing event for it.
C6_EventOrder ==
  \A k \in Keys : processCalls[k] > 0 =>
    \E i \in DOMAIN eventLog : \E j \in DOMAIN eventLog :
      /\ i < j
      /\ eventLog[i].name = "taskPending" /\ eventLog[i].key = k
      /\ eventLog[j].name = "taskProcessing" /\ eventLog[j].key = k

(* C7 *)

\* the terminal events of the step that carry a result produced by the step
FreshTerminal(k) ==
  {i \in DOMAIN NewEvents :
     /\ NewEvents[i].name \in Terminal
     /\ NewEvents[i].key = k
     /\ NewEvents[i].result.completedAt = cacheLength + 1}

\* the number of bodies of k that end in the step
BodiesEnded(k) == ExecutingCount(k) + (processCalls'[k] - processCalls[k]) - ExecutingCount(k)'

C8_CacheHit ==
  [][IsProcessStep =>
       \A k \in NewCall.nodes \ NewCall.forced :
         CacheGet(cache, k) # NoResult /\ k \notin Range(index) =>
           /\ \E i \in DOMAIN NewEvents :
                /\ NewEvents[i].name = "taskComplete"
                /\ NewEvents[i].result = CacheGet(cache, k)
           /\ k \notin Range(index')
           /\ processCalls'[k] = processCalls[k]]_vars

(* C9 *)

\* C9: a task submitted with force (and not already in the graph) is added to
\* the graph to be executed, and no taskComplete event for its key is emitted
\* from the cache.
C9_ForceRuns ==
  [][IsProcessStep =>
       \A k \in NewCall.forced :
         k \notin Range(index) =>
           /\ k \in Range(index')
           /\ \A i \in DOMAIN NewEvents : NewEvents[i].key # k]_vars

(* C10 *)

Received(c) == {k \in Keys : c.results[k] # NoResult}

C11_ParentExemption ==
  \A i \in DOMAIN calls : \A k \in calls[i].nodes :
    /\ calls[i].parent = Type(k)
    /\ k \in Range(index)
    /\ node[k].dependencies = {}
    /\ k \notin Range(inProgress)
    => Len(inProgress) >= concurrencyLimit

(* C12 *)

\* the nodes in the graph with the baseKey of k and another key
Siblings(k) == {p \in Range(index) : BaseKey(p) = BaseKey(k) /\ p # k}

\* C12: a task submitted while a task with its baseKey and another key is in
\* the graph is added to the graph, and its body is not started by the
\* submission, the earlier task not having finished.
C12_FifoBehindPredecessor ==
  [][IsProcessStep =>
       \A k \in NewCall.nodes :
         k \notin Range(index) /\ Siblings(k) # {} =>
           k \in Range(index') /\ processCalls'[k] = processCalls[k]]_vars

(* C13 *)

\* C13: a task submitted without force whose key has a failed result in the
\* cache (and is not in the graph) is added to the graph to be executed again,
\* and no event carrying the failed result is emitted for it.
C13_ErrorNotReused ==
  [][IsProcessStep =>
       \A k \in NewCall.nodes \ NewCall.forced :
         Failed(k) /\ k \notin Range(index) =>
           /\ k \in Range(index')
           /\ \A i \in DOMAIN NewEvents : NewEvents[i].key # k]_vars

(* C14 *)

\* C14: when the body of a task is started, the dependencyResults of its node
\* hold the key of every task it declares as a dependency whose result is in
\* the cache.
C14_DependencyResults ==
  [][\A b \in Keys : processCalls'[b] > processCalls[b] =>
       \A d \in DepTasks(b) :
         CacheGet(cache', d) # NoResult => d \in node'[b].dependencyResults]_vars

(* C15 *)

\* the keys with a result in the cache
Present(c) == {k \in DOMAIN c : c[k] # NoResult}

\* the result put by the step, and the cache with it before cleanup
PutResult == eventLog'[Len(eventLog')].result

Stored == [cache EXCEPT ![PutResult.key] = PutResult]

\* C15: a put that makes the cache hold MAX_CACHE_SIZE results leaves the
\* newest 20% of them in the cache, the result just put among them, and every
\* result evicted is older than every result left.
C15_EvictsOldest ==
  [][Cardinality(Present(Stored)) = CacheSize =>
       /\ PutResult.key \in Present(cache')
       /\ Cardinality(Present(cache')) = CacheSize - CleanupCount(CacheSize)
       /\ \A g \in Present(Stored) \ Present(cache') : \A k \in Present(cache') :
            Stored[g].completedAt < cache'[k].completedAt]_vars

(* C16 *)

\* C16: a taskGraphComplete event is the last event of its step, and the step
\* leaves the index empty, with no node in progress and no body of an indexed
\* node executing.
C16_CompleteWhenEmpty ==
  [][\A i \in DOMAIN NewEvents : NewEvents[i].name = "taskGraphComplete" =>
       /\ i = Len(NewEvents)
       /\ index' = <<>>
       /\ inProgress' = <<>>
       /\ running' = {}]_vars

\* the graph has run two bodies and reported completion on becoming empty
C16_Witness ==
  /\ eventLog # <<>>
  /\ eventLog[Len(eventLog)].name = "taskGraphComplete"
  /\ index = <<>>
  /\ Cardinality({k \in Keys : processCalls[k] > 0}) >= 2

(* C17 *)

\* the positions of the events with the name in the log
Positions(name) == {i \in DOMAIN eventLog : eventLog[i].name = name}

\* C17: between the graph leaving the idle state and the next
\* taskGraphComplete, taskGraphProcessing is emitted once: two
\* taskGraphProcessing events have a taskGraphComplete event between them.
C17_ProcessingOncePerWindow ==
  \A i \in Positions("taskGraphProcessing") : \A j \in Positions("taskGraphProcessing") :
    i < j => \E m \in Positions("taskGraphComplete") : i < m /\ m < j

(* C18 *)

Succeeded(k) == cache[k] # NoResult /\ cache[k].key = k /\ ~cache[k].error

\* the step hands tasks that have all succeeded before, none forced, to an empty graph
RepeatOnIdle ==
  /\ IsProcessStep
  /\ index = <<>>
  /\ NewCall.nodes # {}
  /\ NewCall.forced = {}
  /\ \A k \in NewCall.nodes : Succeeded(k)

Settled(k, failed) ==
  LET G1 == [Graph EXCEPT !.running = @ \ {k}]
      result == TaskResult(G1, k, failed)
  IN IF failed
     THEN Finally(Emit(CancelDependants(G1, k), Event("taskError", k, result)), k, result)
     ELSE Finally(Emit(G1, Event("taskComplete", k, result)), k, result)

Resolving == [i \in DOMAIN frames |-> frames[i].key]

\* C21: a resolution never enters a path that is already being resolved: the
\* attempt fails with the circular reference error, so no two of the open
\* activations of resolve() are resolving the same path.
C21_CircularReference ==
  \A i \in DOMAIN frames : \A j \in DOMAIN frames :
    i # j => Resolving[i] # Resolving[j]

(* C22 *)

\* the graph that was constructed without an error
Accepted == configGraph.error = "none"

\* C22: a ConfigGraph that was constructed without an error has no directed
\* cycle among its nodes.
C22_Acyclic ==
  Accepted => ~Cyclic(configGraph.edges)

(* C23 *)

\* the names that the modules declare as services, and as tasks
ServiceNames(i) == {moduleConfigs[i].service.name} \ {""}

TaskNames(i) == {moduleConfigs[i].task.name} \ {""}

\* C23: in a ConfigGraph that was constructed without an error no two modules
\* declare the same service name, no two modules declare the same task name,
\* and no name is declared both as a service and as a task.
C23_UniqueNames ==
  Accepted =>
    \A i \in DOMAIN moduleConfigs : \A j \in DOMAIN moduleConfigs :
      /\ i # j => ServiceNames(i) \cap ServiceNames(j) = {}
      /\ i # j => TaskNames(i) \cap TaskNames(j) = {}
      /\ ServiceNames(i) \cap TaskNames(j) = {}

(* C24 *)

\* the names the module list declares as a service or as a task
KnownNames == UNION {ServiceNames(i) \cup TaskNames(i) : i \in DOMAIN moduleConfigs}

\* the runtime dependencies the module list declares: <<node, name>>
DeclaredDependencies ==
  UNION {{<<<<"service", moduleConfigs[i].service.name>>, d>> : d \in moduleConfigs[i].service.dependencies}
         \cup {<<<<"task", moduleConfigs[i].task.name>>, d>> : d \in moduleConfigs[i].task.dependencies}
         \cup {<<<<"test", moduleConfigs[i].name>>, d>> : d \in moduleConfigs[i].test.dependencies}
         : i \in DOMAIN moduleConfigs}

UnknownDependency == \E e \in DeclaredDependencies : e[2] \notin KnownNames

\* C24: the construction of the graph fails with a configuration error when a
\* service, task or test declares a dependency that no module declares as a
\* service or task; when every dependency is known no other error is thrown
\* for them, and in the graph that is constructed each declared dependency is
\* an edge to the service or task node of that name.
C24_DependenciesResolve ==
  gardenCall.op = "getConfigGraph" =>
    /\ UnknownDependency => gardenCall.error = "ConfigurationError"
    /\ ~UnknownDependency =>
         /\ gardenCall.error # "TypeError"
         /\ Accepted =>
              \A e \in DeclaredDependencies :
                \/ <<e[1], <<"service", e[2]>>>> \in configGraph.edges
                \/ <<e[1], <<"task", e[2]>>>> \in configGraph.edges

(* C25 *)

\* the plugins that have registered a handler of the type, in the order of
\* the loadPlugin() calls
Registrations(actionType) ==
  SelectSeq(pluginLoads, LAMBDA p : actionType \in Provides(p))

\* a step that is a request for one handler
HandlerRequested(op) ==
  /\ handlerCall' # handlerCall
  /\ handlerCall'.op = op

\* C25: when some plugin has registered a handler of the action type,
\* getActionHandler without a pluginName returns the handler of the plugin that
\* registered one last, and with the name of a plugin that has registered one
\* it returns the handler of that plugin.
C25_LastRegisteredWins ==
  [][HandlerRequested("getActionHandler") =>
       LET call == handlerCall'
           regs == Registrations(call.actionType)
       IN /\ (call.pluginName = "" /\ regs # <<>>) =>
               call.handler = Handler(regs[Len(regs)], call.actionType, "")
          /\ (\E i \in DOMAIN regs : regs[i] = call.pluginName) =>
               call.handler = Handler(call.pluginName, call.actionType, "")]_vars

(* C26 *)

\* the plugins that have registered a handler of the module action type
ModuleRegistrations(type) ==
  SelectSeq(pluginLoads, LAMBDA p : type \in ProvidesModule(p))

\* the plugins whose handler matches the request
Matching(call) ==
  LET regs == IF call.op = "getActionHandler"
              THEN Registrations(call.actionType)
              ELSE ModuleRegistrations(<<call.actionType, call.moduleType>>)
  IN {regs[i] : i \in DOMAIN regs} \cap (IF call.pluginName = "" THEN Plugins ELSE {call.pluginName})

\* C26: getActionHandler and getModuleActionHandler return a registered
\* handler of a matching plugin when there is one; otherwise the default
\* handler of the caller when one was given; otherwise they throw: a
\* ParameterError when no pluginName was given, a PluginError when one was.
C26_HandlerDefaultOrError ==
  [][HandlerRequested("getActionHandler") \/ HandlerRequested("getModuleActionHandler") =>
       LET call == handlerCall'
       IN IF Matching(call) # {}
          THEN /\ call.error = "none"
               /\ call.handler.pluginName \in Matching(call)
               /\ call.handler.actionType = call.actionType
               /\ call.handler.moduleType = call.moduleType
          ELSE IF call.defaultHandler
          THEN /\ call.error = "none"
               /\ call.handler = DefaultHandler(call.actionType, call.moduleType)
          ELSE /\ call.returns = "nothing"
               /\ call.error = IF call.pluginName = "" THEN "ParameterError" ELSE "PluginError"]_vars

\* a default handler was given and a registered handler was returned, for a
\* module action asked of a plugin by name
C26_Witness ==
  /\ handlerCall.op = "getModuleActionHandler"
  /\ handlerCall.defaultHandler
  /\ handlerCall.pluginName = "P3"
  /\ handlerCall.handler = Handler("P3", "build", "container")
  /\ Len(pluginLoads) = MaxLoads

(* C27 *)

\* the loaded plugins that have a getEnvironmentStatus handler, all of them or
\* the one that is named
StatusPlugins(pluginName) ==
  {p \in loadedPlugins : "getEnvironmentStatus" \in Provides(p)}
    \cap (IF pluginName = "" THEN Plugins ELSE {pluginName})

\* C27: getEnvironmentStatus returns a map with exactly one entry for each
\* loaded plugin that has a getEnvironmentStatus handler, keyed by the name of
\* the plugin; with a pluginName the map has the entry of that plugin only.
C27_StatusOfEveryPlugin ==
  [][HandlerRequested("getEnvironmentStatus") =>
       LET call == handlerCall'
       IN /\ call.returns = "map"
          /\ {call.statuses[i] : i \in DOMAIN call.statuses} = StatusPlugins(call.pluginName)
          /\ Len(call.statuses) = Cardinality(StatusPlugins(call.pluginName))]_vars

(* C28 *)

\* two calls have the same inputs: the module and the names of its dependencies
SameInputs(c, d) ==
  /\ c.moduleName = d.moduleName
  /\ Range(c.moduleDependencies) = Range(d.moduleDependencies)

\* C28: a call with force=false that starts after a call with the same module
\* and the same dependency names, in any order, has ended, the sources being
\* unchanged since, returns the cached version and does not consult the VCS;
\* two calls with the same inputs over which the sources did not change return
\* the same version; a call with force=true consults the VCS and returns the
\* version of the sources.
C28_VersionMemoised ==
  \A j \in DOMAIN versionCalls :
    LET d == versionCalls[j]
    IN d.pc = "done" =>
         /\ (~d.force /\ \E i \in d.after :
                            /\ SameInputs(versionCalls[i], d)
                            /\ versionCalls[i].sourcesAtEnd = d.sourcesAtStart)
              => /\ ~d.consulted
                 /\ \E i \in d.after : SameInputs(versionCalls[i], d)
                                       /\ versionCalls[i].result = d.result
         /\ \A i \in DOMAIN versionCalls :
              (/\ i < j
               /\ versionCalls[i].pc = "done"
               /\ SameInputs(versionCalls[i], d)
               /\ versionCalls[i].sourcesAtStart = versionCalls[i].sourcesAtEnd
               /\ versionCalls[i].sourcesAtStart = d.sourcesAtStart
               /\ versionCalls[i].sourcesAtStart = d.sourcesAtEnd)
                => versionCalls[i].result = d.result
         /\ d.force =>
              /\ d.consulted
              /\ d.result = VcsVersion(d.moduleName, d.moduleDependencies, d.sourcesAtEnd)

\* a version was resolved for dependencies a, b; a call with dependencies b, a
\* was then answered from the cache; a forced call recomputed it after the
\* sources had changed
C28_Witness ==
  /\ Len(versionCalls) = 3
  /\ versionCalls[1].moduleDependencies = <<"a", "b">>
  /\ versionCalls[1].consulted
  /\ versionCalls[2].moduleDependencies = <<"b", "a">>
  /\ versionCalls[2].pc = "done" /\ ~versionCalls[2].consulted
  /\ versionCalls[2].result = versionCalls[1].result
  /\ versionCalls[3].force /\ versionCalls[3].pc = "done"
  /\ versionCalls[3].result # versionCalls[1].result

\* the names of the registered module configs are distinct
UniqueModuleNames(configs) ==
  \A i, j \in DOMAIN configs : configs[i].name = configs[j].name => i = j

StoreQuiet ==
  \A i \in DOMAIN storeCalls : storeCalls[i].pc = "done"

\* the update of a call that succeeded is in the file, when no other call was
\* about its key
Kept(i) ==
  (/\ storeCalls[i].error = "none"
   /\ \A j \in DOMAIN storeCalls : j # i => storeCalls[j].key # storeCalls[i].key)
    => (storeCalls[i].key \in storeDisk <=> storeCalls[i].op = "set")

\* C30: when the set() and delete() calls on a store have ended, the file
\* holds the update of every call, and the config in memory is the content of
\* the file.
C30_WritersSerialised ==
  (storeCalls # <<>> /\ StoreQuiet) =>
    /\ \A i \in DOMAIN storeCalls : Kept(i)
    /\ storeConfig # NoObject
    /\ storeHeap[storeConfig] = storeDisk

\* the builds whose mvn process is running
RunningMaven == {i \in DOMAIN mavenBuilds : mavenBuilds[i].pc = "mvn"}

\* C31: at most one mvn process is running at any time, whatever the number
\* of build handlers that are executing; it is the one of the build that
\* holds the lock.
C31_OneMaven ==
  /\ Cardinality(RunningMaven) <= 1
  /\ \A i \in RunningMaven : buildLock # <<>> /\ Head(buildLock) = i

\* one build runs mvn while two others have asked for the lock and wait
C31_Witness ==
  /\ Cardinality(RunningMaven) = 1
  /\ Cardinality({i \in DOMAIN mavenBuilds : mavenBuilds[i].pc = "queued"}) = 2

\* C40: when a call of ensureNamespace has returned without an error, its
\* namespace existed in the cluster at the return.
C40_NamespaceExists ==
  \A i \in DOMAIN namespaceCalls :
    (namespaceCalls[i].pc = "done" /\ namespaceCalls[i].error = "none")
      => namespaceCalls[i].exists

\* C32: when every task body ends, a graph that holds nodes becomes empty, and
\* taskGraphComplete is then the last event: no node stays in the index
\* without being started or cancelled.
C32_SchedulerLive ==
  (index # <<>>) ~> (/\ index = <<>>
                     /\ eventLog # <<>>
                     /\ eventLog[Len(eventLog)].name = "taskGraphComplete")

\* C33: when every task body ends, the promise of every process() call
\* settles: it resolves or rejects.
C33_PromiseEventuallySettles ==
  \A i \in 1..MaxProcess :
    (i \in DOMAIN calls /\ calls[i].status = "pending")
      ~> (i \in DOMAIN calls /\ calls[i].status # "pending")

\* the step is the end of the body of the indexed node k: its then or catch
\* handler and its finally handler
Finishes(k) ==
  /\ k \in running
  /\ k \notin running'
  /\ NewEvents # <<>>
  /\ NewEvents[1].name \in Terminal
  /\ NewEvents[1].key = k

DeclaredInIndex(k) ==
  \E n \in Range(index) : BaseKey(n) \in taskDependencyCache[k]

C35_InProgressIsRunning ==
  /\ Range(inProgress) \subseteq Range(index)
  /\ Range(inProgress) = running

\* C36: when the body of a task returns, its result is in the result cache
\* when the taskComplete event is emitted: a listener called with the event
\* for key k gets the result from the cache.
C36_CachedWhenEmitted ==
  [][\A k \in Keys :
       (Finishes(k) /\ NewEvents[1].name = "taskComplete")
         => CacheGet(BodyReturned(k).cache, k) = NewEvents[1].result]_vars

\* C37: a successful result that is put in the result cache is returned by
\* get for its key right after the put, however many puts came before.
C37_PutThenGet ==
  [][(eventLog' # eventLog /\ ~PutResult.error)
       => CacheGet(cache', PutResult.key) = PutResult]_vars

\* the orderings of a list of distinct module configs
Orderings(modules) ==
  {s \in [1..Len(modules) -> Range(modules)] : Range(s) = Range(modules)}

\* two constructions end the same way: both throw, or both return a graph
\* with the same nodes and the same edges
SameGraph(g, h) ==
  IF g.error = "none" /\ h.error = "none"
  THEN g.index = h.index /\ g.edges = h.edges
  ELSE g.error # "none" /\ h.error # "none"

\* C38: the ConfigGraph that getConfigGraph() constructed from the module
\* configs is the one every other ordering of the same configs gives: the same
\* nodes and edges, or an error for all of them.
C38_OrderInsensitive ==
  configGraph # NoGraph =>
    \A modules \in Orderings(moduleConfigs) : SameGraph(configGraph, ConfigGraph(modules))

\* C39: scanModules(true) called after a scan that succeeded succeeds and
\* leaves the same module names registered.
C39_RescanSucceeds ==
  [][(modulesScanned /\ ~scanRejected /\ gardenCall' # gardenCall
        /\ gardenCall'.op = "scanModules" /\ gardenCall'.force)
       => /\ gardenCall'.error = "none"
          /\ ~scanRejected'
          /\ {moduleConfigs'[i].name : i \in DOMAIN moduleConfigs'}
               = {moduleConfigs[i].name : i \in DOMAIN moduleConfigs}]_vars

====
